---- MODULE Spec2Model ----
(***************************************************************************)
(* A model of the donor-analysis scripts:                                  *)
(*   aggregate-by-party.py          (specification Spec)                   *)
(*   its group_key construction     (specification SpecCanon)              *)
(*   check-for-duplicate-donors.py  (specification SpecDup)                *)
(*   dedupe-donor-output.py         (specification SpecDedupe)             *)
(*   compute-party-splits.py        (specifications SpecCat, SpecSplits)   *)
(*                                                                         *)
(* Text is modelled as a sequence of one-character strings, so that        *)
(* trimming, case folding, substring search and number parsing are         *)
(* computed the way the Python code computes them.  A Python float is      *)
(* modelled as an exact decimal, the integer number of its hundredths; the *)
(* modelled texts carry at most two fractional digits.  None (a missing    *)
(* CSV field or JSON member) is the value NoneVal.                         *)
(***************************************************************************)
EXTENDS Integers, Sequences, FiniteSets, TLC

\* ------------------------------------------------------------------ text

NoneVal == <<"<None>">>

Digits == {"0", "1", "2", "3", "4", "5", "6", "7", "8", "9"}

Uppers == <<"A", "B", "C", "D", "E", "F", "G", "H", "I", "J", "K", "L", "M",
            "N", "O", "P", "Q", "R", "S", "T", "U", "V", "W", "X", "Y", "Z">>

Lowers == <<"a", "b", "c", "d", "e", "f", "g", "h", "i", "j", "k", "l", "m",
            "n", "o", "p", "q", "r", "s", "t", "u", "v", "w", "x", "y", "z">>

\* The modelled characters in code-point order (str comparison, sorted()).
CodeOrder == <<" ", "$", "'", "+", ",", "-", ".", "/",
               "0", "1", "2", "3", "4", "5", "6", "7", "8", "9">>
             \o Uppers \o <<"_">> \o Lowers

IndexOf(seq, c) == CHOOSE i \in 1..Len(seq) : seq[i] = c

Ord(c) == IndexOf(CodeOrder, c)

DigitVal(c) == Ord(c) - Ord("0")

DigitChar(n) == CodeOrder[Ord("0") + n]

IsSpace(c) == c = " "

LowerChar(c) ==
    IF \E i \in 1..Len(Uppers) : Uppers[i] = c THEN Lowers[IndexOf(Uppers, c)] ELSE c

\* str.lower()
Lower(s) == [i \in 1..Len(s) |-> LowerChar(s[i])]

\* "".join(ch for ch in s if ch in keep)
RECURSIVE KeepChars(_, _)
KeepChars(s, keep) ==
    IF s = <<>> THEN <<>>
    ELSE (IF Head(s) \in keep THEN <<Head(s)>> ELSE <<>>) \o KeepChars(Tail(s), keep)

\* s.replace(c, "") for a one-character c
DropChar(s, c) == KeepChars(s, {s[i] : i \in 1..Len(s)} \ {c})

\* s.replace(c, d) for one-character c and d
ReplaceChar(s, c, d) == [i \in 1..Len(s) |-> IF s[i] = c THEN d ELSE s[i]]

RECURSIVE LStrip(_)
LStrip(s) == IF s # <<>> /\ IsSpace(Head(s)) THEN LStrip(Tail(s)) ELSE s

RECURSIVE RStrip(_)
RStrip(s) ==
    IF s # <<>> /\ IsSpace(s[Len(s)]) THEN RStrip(SubSeq(s, 1, Len(s) - 1)) ELSE s

\* str.strip()
Strip(s) == RStrip(LStrip(s))

\* s.lstrip(c)
RECURSIVE LStripChar(_, _)
LStripChar(s, c) == IF s # <<>> /\ Head(s) = c THEN LStripChar(Tail(s), c) ELSE s

\* sub in s
Contains(s, sub) ==
    \E i \in 1..(Len(s) - Len(sub) + 1) : SubSeq(s, i, i + Len(sub) - 1) = sub

\* s.split() : the maximal runs of non-space characters
RECURSIVE Words(_, _)
Words(s, cur) ==
    IF s = <<>> THEN (IF cur = <<>> THEN <<>> ELSE <<cur>>)
    ELSE IF IsSpace(Head(s))
         THEN (IF cur = <<>> THEN <<>> ELSE <<cur>>) \o Words(Tail(s), <<>>)
         ELSE Words(Tail(s), Append(cur, Head(s)))

\* sep.join(parts)
RECURSIVE Join(_, _)
Join(parts, sep) ==
    IF parts = <<>> THEN <<>>
    ELSE IF Len(parts) = 1 THEN parts[1]
    ELSE parts[1] \o sep \o Join(Tail(parts), sep)

\* a < b on str (code-point lexicographic order)
RECURSIVE StrLess(_, _)
StrLess(a, b) ==
    IF b = <<>> THEN FALSE
    ELSE IF a = <<>> THEN TRUE
    ELSE IF Head(a) = Head(b) THEN StrLess(Tail(a), Tail(b))
    ELSE Ord(Head(a)) < Ord(Head(b))

\* x or "" : None and the empty string are falsy
OrEmpty(x) == IF x = NoneVal THEN <<>> ELSE x

\* ---------------------------------------------------------------- floats

\* A float is the integer number of its hundredths.  float() is modelled on
\* decimal literals; its other literals (exponents, "inf", "nan", digit
\* separators) use characters outside the modelled amount texts.
ParseFail == [ok |-> FALSE, val |-> 0]

RECURSIVE DigitsValue(_)
DigitsValue(ds) ==
    IF ds = <<>> THEN 0 ELSE 10 * DigitsValue(SubSeq(ds, 1, Len(ds) - 1)) + DigitVal(ds[Len(ds)])

\* The unsigned decimal literals float() accepts: digits, at most one dot, at
\* least one digit.
ParseUnsigned(t) ==
    LET dots == {i \in 1..Len(t) : t[i] = "."}
        allowed == \A i \in 1..Len(t) : t[i] \in Digits \cup {"."}
        ip == IF dots = {} THEN t ELSE SubSeq(t, 1, (CHOOSE i \in dots : TRUE) - 1)
        fp == IF dots = {} THEN <<>> ELSE SubSeq(t, (CHOOSE i \in dots : TRUE) + 1, Len(t))
        f2 == IF Len(fp) = 0 THEN <<"0", "0">>
              ELSE IF Len(fp) = 1 THEN fp \o <<"0">>
              ELSE SubSeq(fp, 1, 2)
    IN  IF ~allowed \/ Cardinality(dots) > 1 \/ Len(ip) + Len(fp) = 0 THEN ParseFail
        ELSE [ok |-> TRUE, val |-> 100 * DigitsValue(ip) + DigitsValue(f2)]

\* float(s): surrounding whitespace is ignored, one optional sign, then a
\* decimal literal.  [ok |-> FALSE] is ValueError.
ParseFloat(s) ==
    LET t == Strip(s)
        signed == t # <<>> /\ Head(t) \in {"+", "-"}
        u == ParseUnsigned(IF signed THEN Tail(t) ELSE t)
    IN  IF ~u.ok THEN ParseFail
        ELSE IF signed /\ Head(t) = "-" THEN [ok |-> TRUE, val |-> 0 - u.val]
        ELSE u

\* float.is_integer()
FIsInteger(a) == a % 100 = 0

RECURSIVE NatStr(_)
NatStr(n) == IF n < 10 THEN <<DigitChar(n)>> ELSE NatStr(n \div 10) \o <<DigitChar(n % 10)>>

\* str(int(a)): int() truncates toward zero
IntStr(a) == IF a <= -100 THEN <<"-">> \o NatStr((0 - a) \div 100) ELSE NatStr((IF a < 0 THEN 0 - a ELSE a) \div 100)

\* f"{a:.2f}"
Fixed2(a) ==
    LET m == IF a < 0 THEN 0 - a ELSE a
    IN  (IF a < 0 THEN <<"-">> ELSE <<>>)
        \o NatStr(m \div 100) \o <<".">> \o <<DigitChar((m % 100) \div 10), DigitChar(m % 10)>>

\* ---------------------------------------------------------- ordered dicts

\* A Python dict is a sequence of <<key, value>> pairs in insertion order.
DictKeys(d) == [i \in 1..Len(d) |-> d[i][1]]

DictHas(d, k) == \E i \in 1..Len(d) : d[i][1] = k

\* d[k] for a key that is present
DictAt(d, k) == d[CHOOSE i \in 1..Len(d) : d[i][1] = k][2]

\* d.get(k): None when absent
DictGet(d, k) == IF DictHas(d, k) THEN DictAt(d, k) ELSE NoneVal

\* d[k] = v: an existing key keeps its position, a new key is appended
DictSet(d, k, v) ==
    IF DictHas(d, k) THEN [i \in 1..Len(d) |-> IF d[i][1] = k THEN <<k, v>> ELSE d[i]]
    ELSE Append(d, <<k, v>>)

\* row.get(field) on a csv.DictReader row
RowGet(row, field) == IF field \in DOMAIN row THEN row[field] ELSE NoneVal

\* ------------------------------------------- aggregate-by-party.py: inputs

\* The size of a run's input: the rows of all donors-*.csv files together
\* and the records of all lookup responses together.
MaxRows == 2

MaxRecs == 2

\* how many donors-*.csv files the input directory holds
CandCounts == {1, 2}

\* --limit (0 = all)
LimitArgs == {0, 1}

AcmePAC == <<"A", "c", "m", "e", " ", "P", "A", "C">>

BlankRow ==
    [eid |-> <<>>, entityName |-> <<>>, firstName |-> <<>>, middleInitial |-> <<>>,
     lastName |-> <<>>, city |-> <<>>, state |-> <<>>, donationsToCampaign |-> <<>>]

\* The rows a donors-*.csv file is drawn from: one organisation under two
\* identifiers (the second padded with blanks), a person sharing the first
\* identifier, a row with an identifier and no identity, a row with no identifier.
DonorRows ==
    { [BlankRow EXCEPT !.eid = <<"1">>, !.entityName = AcmePAC,
                       !.donationsToCampaign = <<"$", "1", ",", "0", "0", "0">>],
      [BlankRow EXCEPT !.eid = <<" ", "2">>, !.entityName = <<" ">> \o AcmePAC \o <<" ">>,
                       !.donationsToCampaign = <<"5", "0", ".", "5">>],
      [BlankRow EXCEPT !.eid = <<"1">>, !.firstName = <<"A", "l">>, !.lastName = <<"L", "e", "e">>,
                       !.city = NoneVal, !.donationsToCampaign = NoneVal],
      [BlankRow EXCEPT !.eid = <<"3">>, !.middleInitial = NoneVal, !.state = <<" ", " ">>,
                       !.donationsToCampaign = <<"7">>],
      [BlankRow EXCEPT !.eid = <<" ">>, !.entityName = AcmePAC] }

Rep == <<"R", "e", "p">>

Dem == <<"D", "e", "m">>

\* a second spelling of a party label
RepCaps == <<"R", "E", "P">>

ThirdParty == <<"T", "h", "i", "r", "d", " ", "P", "a", "r", "t", "y">>

ThirdHyphenParty == <<"t", "h", "i", "r", "d", "-", "p", "a", "r", "t", "y">>

\* One record of a lookup response: rec["Party"]["Party"] and rec["Total_$"]["Total_$"]
\* (NoneVal when the member is absent).
LookupRecs ==
    { [party |-> Rep, total |-> <<"1", "0", "0", ".", "0", "0">>],
      [party |-> Rep, total |-> <<"5", "0", ".", "0", "0">>],
      [party |-> Dem, total |-> <<"1", ",", "0", "0", "0", ".", "5">>],
      [party |-> NoneVal, total |-> <<"1", "0">>],
      [party |-> <<>>, total |-> <<"1", "0">>],
      [party |-> Rep, total |-> <<"0">>],
      [party |-> Dem, total |-> <<"-", "3">>],
      [party |-> Dem, total |-> <<"a", "b", "c">>],
      [party |-> Rep, total |-> NoneVal] }

\* Records of a service whose party labels differ in letter case only, or in a
\* space versus a hyphen.
LabelRecs ==
    { [party |-> Rep, total |-> <<"1", "0", "0", ".", "0", "0">>],
      [party |-> RepCaps, total |-> <<"7">>],
      [party |-> ThirdParty, total |-> <<"5", "0", ".", "0", "0">>],
      [party |-> ThirdHyphenParty, total |-> <<"2", "5">>] }

\* ------------------------------------------------- state of the other scripts

VARIABLES
    canon_in,       \* canonicalizer under test: the two rows given
    canon_out       \* canonicalizer under test: their keys, once computed

\* check-for-duplicate-donors.py, process_candidate_dir
VARIABLES
    dup_dir,        \* the candidate directory: its *.csv files in sorted order
    dup_pc,         \* "start", "scan", "done"
    dup_fi,         \* position of the file loop
    dup_ri,         \* position of the row loop
    key_to_files,   \* dict key -> set of file names
    key_to_row,     \* dict key -> representative row
    duplicates,     \* list of (name, donations, files_joined)
    dup_out         \* lines of {candidate}-duplicates.txt, NoneVal while not written

\* dedupe-donor-output.py, process_candidate
VARIABLES
    ded_dir,        \* the candidate directory: its *.csv files in sorted order
    ded_orig,       \* history: the directory as it was when the run started
    ded_pc,         \* "start", "files", "done"
    ded_fi,         \* position of the file loop
    repdem_keys,    \* set of match keys of republican.csv and democratic.csv
    ded_report,     \* the "removed ... kept ..." lines printed, as records
    ded_run,        \* 1 in the first run on the directory, 2 in a second run
    ded_first       \* the directory as the first run left it, in a second run

\* compute-party-splits.py, map_party_stem_to_category
VARIABLES
    cat_stem,       \* the stem given
    cat_out         \* the category returned, NoCategory before the call

\* compute-party-splits.py, main
VARIABLES
    spl_root,       \* by-donor-output: the candidate directories in sorted order
    spl_pc,         \* "files", "done"
    spl_ci,         \* position of the candidate loop
    spl_fi,         \* position of the file loop
    sums,           \* category -> sum, of the candidate being processed
    out_rows,       \* list of (candidate, four percentages)
    splits_csv      \* rows of splits.csv, empty while not written

\* compute-party-splits.py, sum_preferred_amounts_in_csv on one file
VARIABLES
    sum_file,       \* the csv file given: its header and rows
    sum_pc,         \* "start", "done"
    sum_total       \* the total returned

\* search-users.py, main over the matched contributions files
VARIABLES
    srch_files,     \* the contributions files: the rows of each
    srch_test,      \* args.test_html is given
    srch_pc,        \* "row", "responded", "parse", "done"
    srch_fi,        \* position of the file loop
    srch_ri,        \* position of the row loop
    srch_resp,      \* how requests.get ended: "error", "status", "ok"
    srch_last       \* history: "request" after a request, "slept" once time.sleep
                    \* has followed it, "none" before the first

canonVars == <<canon_in, canon_out>>

dupVars == <<dup_dir, dup_pc, dup_fi, dup_ri, key_to_files, key_to_row, duplicates, dup_out>>

dedVars == <<ded_dir, ded_orig, ded_pc, ded_fi, repdem_keys, ded_report, ded_run, ded_first>>

catVars == <<cat_stem, cat_out>>

splVars == <<spl_root, spl_pc, spl_ci, spl_fi, sums, out_rows, splits_csv>>

sumVars == <<sum_file, sum_pc, sum_total>>

srchVars == <<srch_files, srch_test, srch_pc, srch_fi, srch_ri, srch_resp, srch_last>>

\* -------------------------------------------- aggregate-by-party.py: state

VARIABLES
    ncand,          \* number of donors-*.csv files found (len(csv_paths))
    limit,          \* args.limit
    ci,             \* position of the csv_path loop
    pc,             \* "ingest", "fetch", "records", "done", "aborted"
    rows_read,      \* the rows the csv reader has yielded in this pass
    eid_to_group,   \* dict eid -> group_key
    group_info,     \* dict group_key -> group record
    eids,           \* the identifiers to look up in this pass
    idx,            \* position of the eid loop
    records_left,   \* records of the current response not yet iterated
    rec,            \* the record the record loop is at (NoRec outside the loop,
                    \* where it is not read)
    party_map,      \* dict party -> dict group_key -> amount
    out_files,      \* dict <<candidate, file name>> -> rows written
    observed,       \* history: per (party, key), the sum of the positive amounts observed
                    \* and the identifiers they were observed under
    rows_used,      \* rows read so far in the run
    recs_used,      \* lookup records received so far in the run
    lookup,         \* history: how the latest remote lookup ended ("ok", "failed",
                    \* "unexpected"), "slept" once time.sleep has followed it,
                    \* "none" before the first
    requested       \* history: the identifiers requested in this pass, in order

aggVars ==
    <<ncand, limit, ci, pc, rows_read, eid_to_group, group_info, eids, idx,
      records_left, rec, party_map, out_files, observed, rows_used, recs_used,
      lookup, requested>>

\* The state of the other scripts, which this script never touches.
toolVars == <<canonVars, dupVars, dedVars, catVars, splVars, sumVars, srchVars>>

OtherTools == UNCHANGED toolVars

\* float(str(s).replace(",", "")), 0.0 on any exception; str(None) is "None"
parse_float(s) ==
    LET txt == IF s = NoneVal THEN <<"N", "o", "n", "e">> ELSE s
        r == ParseFloat(DropChar(txt, ","))
    IN  IF r.ok THEN r.val ELSE 0

\* mutant of Field: only the leading blanks are removed
FieldLeftStripped(row, field) == LStrip(OrEmpty(RowGet(row, field)))

\* (row.get(field) or "").strip()
Field(row, field) == Strip(OrEmpty(RowGet(row, field)))

\* group_key = (entityName, first, middle, last, city, state)
group_key_of(row) ==
    <<Field(row, "entityName"), Field(row, "firstName"), Field(row, "middleInitial"),
      Field(row, "lastName"), Field(row, "city"), Field(row, "state")>>

\* float(re.sub(r"[^0-9.-]", "", donations_text)) if donations_text else 0.0,
\* 0.0 on any exception
donations_val_of(row) ==
    LET donations_text == Field(row, "donationsToCampaign")
        r == ParseFloat(KeepChars(donations_text, Digits \cup {".", "-"}))
    IN  IF donations_text # <<>> /\ r.ok THEN r.val ELSE 0

NewGroup(row, eid) ==
    LET k == group_key_of(row)
    IN  [entityName |-> k[1], first |-> k[2], middle |-> k[3], last |-> k[4],
         city |-> k[5], state |-> k[6],
         donationsToCampaign |-> donations_val_of(row), eids |-> {eid}]

\* mutant of IngestGroup: a later row with the key overwrites the group's fields
IngestGroupLastWins(gi, row, eid) ==
    LET k == group_key_of(row)
    IN  IF ~DictHas(gi, k) THEN DictSet(gi, k, NewGroup(row, eid))
        ELSE DictSet(gi, k, [NewGroup(row, eid) EXCEPT !.eids = DictAt(gi, k).eids \cup {eid}])

\* group_info after the body of the row loop for a row with a non-empty eid
IngestGroup(gi, row, eid) ==
    LET k == group_key_of(row)
    IN  IF ~DictHas(gi, k) THEN DictSet(gi, k, NewGroup(row, eid))
        ELSE DictSet(gi, k, [DictAt(gi, k) EXCEPT !.eids = @ \cup {eid}])

\* bool(group_key): a tuple is falsy only when it has no components
KeyTruthy(k) == Len(k) # 0

\* not party or amt <= 0
Discarded(party, amt) == party = NoneVal \/ party = <<>> \/ amt <= 0

\* mutant of PartyAdd: the cell is assigned, not added to
PartyAddAssign(pm, party, k, amt) ==
    LET person_map == IF DictHas(pm, party) THEN DictAt(pm, party) ELSE <<>>
    IN  DictSet(pm, party, DictSet(person_map, k, amt))

\* party_map[party][group_key] += amt on defaultdict(lambda: defaultdict(float))
PartyAdd(pm, party, k, amt) ==
    LET person_map == IF DictHas(pm, party) THEN DictAt(pm, party) ELSE <<>>
        cur == IF DictHas(person_map, k) THEN DictAt(person_map, k) ELSE 0
    IN  DictSet(pm, party, DictSet(person_map, k, cur + amt))

\* mutant of Record: party_map[party] is looked up before the amount is
\* tested, which makes the defaultdict create the party entry
RecordTouchFirst(pm, index, eid, r) ==
    LET party == r.party
        amt == parse_float(r.total)
        touched == IF DictHas(pm, party) THEN pm ELSE DictSet(pm, party, <<>>)
    IN  IF party = NoneVal \/ party = <<>> THEN pm
        ELSE IF amt <= 0 THEN touched
        ELSE IF ~DictHas(index, eid) THEN touched
        ELSE PartyAdd(pm, party, DictAt(index, eid), amt)

\* party_map after the body of the record loop for one record of eid's response
Record(pm, index, eid, r) ==
    LET party == r.party
        amt == parse_float(r.total)
    IN  IF Discarded(party, amt) THEN pm
        ELSE IF ~DictHas(index, eid) THEN pm
        ELSE IF ~KeyTruthy(DictAt(index, eid)) THEN pm
        ELSE PartyAdd(pm, party, DictAt(index, eid), amt)

\* all_eids[: args.limit] if args.limit > 0 else all_eids
EidsToFetch(index, lim) ==
    LET all_eids == DictKeys(index)
    IN  IF lim > 0 /\ lim < Len(all_eids) THEN SubSeq(all_eids, 1, lim) ELSE all_eids

\* -kv[1]
SortKey(kv) == 0 - kv[2]

\* list.sort's count_run: the length of the run that starts the list, and
\* whether it is strictly descending
RECURSIVE RunLen(_, _, _)
RunLen(a, n, desc) ==
    IF n = Len(a) THEN n
    ELSE IF (SortKey(a[n + 1]) < SortKey(a[n])) = desc THEN RunLen(a, n + 1, desc)
    ELSE n

Reverse(a) == [i \in 1..Len(a) |-> a[Len(a) + 1 - i]]

\* list.sort's binarysort: where the pivot goes among the sorted a[1..r-1]
RECURSIVE BinPos(_, _, _, _)
BinPos(a, pivot, l, r) ==
    IF l >= r THEN l
    ELSE LET p == l + ((r - l) \div 2)
         IN  IF SortKey(pivot) < SortKey(a[p]) THEN BinPos(a, pivot, l, p)
             ELSE BinPos(a, pivot, p + 1, r)

RECURSIVE BinarySort(_, _)
BinarySort(a, start) ==
    IF start > Len(a) THEN a
    ELSE LET pos == BinPos(a, a[start], 1, start)
             moved == SubSeq(a, 1, pos - 1) \o <<a[start]>> \o SubSeq(a, pos, start - 1)
                      \o SubSeq(a, start + 1, Len(a))
         IN  BinarySort(moved, start + 1)

\* mutant of SortedItems: items with equal keys come out in reverse order
SortedItemsUnstable(person_map) == BinarySort(Reverse(person_map), 2)

\* sorted(person_map.items(), key=lambda kv: -kv[1]) for fewer than 64 items
SortedItems(person_map) ==
    IF Len(person_map) < 2 THEN person_map
    ELSE LET desc == SortKey(person_map[2]) < SortKey(person_map[1])
             n == RunLen(person_map, 2, desc)
             run == SubSeq(person_map, 1, n)
             a == (IF desc THEN Reverse(run) ELSE run)
                  \o SubSeq(person_map, n + 1, Len(person_map))
         IN  BinarySort(a, n + 1)

\* mutant of DollarStr: two decimal places for every value
DollarStrTwoPlaces(x) == Fixed2(x)

\* str(int(x)) if float(x).is_integer() else f"{x:.2f}"
DollarStr(x) == IF FIsInteger(x) THEN IntStr(x) ELSE Fixed2(x)

\* party.lower().replace(" ", "-")
SafeName(party) == ReplaceChar(Lower(party), " ", "-")

\* the row written for one (group_key, amt) item
OutRow(gi, kv) ==
    LET known == DictHas(gi, kv[1])
        info == DictAt(gi, kv[1])
    IN  <<IF known THEN info.entityName ELSE <<>>,
          IF known THEN info.first ELSE <<>>,
          IF known THEN info.last ELSE <<>>,
          DollarStr(kv[2]),
          DollarStr(IF known THEN info.donationsToCampaign ELSE 0)>>

PartyRows(gi, person_map) ==
    LET items == SortedItems(person_map)
    IN  [i \in 1..Len(items) |-> OutRow(gi, items[i])]

\* open(out_path, "w") and the rows written, for every party of party_map in
\* insertion order; a file that exists is replaced
RECURSIVE WriteParties(_, _, _, _)
WriteParties(fs, cand, gi, pm) ==
    IF pm = <<>> THEN fs
    ELSE LET path == <<cand, SafeName(Head(pm)[1])>>
             rows == PartyRows(gi, Head(pm)[2])
             kept == [q \in DOMAIN fs \ {path} |-> fs[q]]
         IN  WriteParties((path :> rows) @@ kept, cand, gi, Tail(pm))

\* ------------------------------------------ aggregate-by-party.py: actions

NoFiles == [q \in {} |-> <<>>]

NoSums == [q \in {} |-> [sum |-> 0, eids |-> {}]]

NoRec == [party |-> NoneVal, total |-> NoneVal]

AggInit ==
    /\ ncand \in CandCounts
    /\ limit \in LimitArgs
    /\ ci = 1
    /\ pc = "ingest"
    /\ rows_read = <<>>
    /\ eid_to_group = <<>>
    /\ group_info = <<>>
    /\ eids = <<>>
    /\ idx = 1
    /\ records_left = 0
    /\ rec = NoRec
    /\ party_map = <<>>
    /\ out_files = NoFiles
    /\ observed = NoSums
    /\ rows_used = 0
    /\ recs_used = 0
    /\ lookup = "none"
    /\ requested = <<>>

\* for row in reader: one row of the candidate's file
ReadRow(row) ==
    /\ pc = "ingest"
    /\ rows_used < MaxRows
    /\ rows_used' = rows_used + 1
    /\ rows_read' = Append(rows_read, row)
    /\ LET eid == Field(row, "eid")
       IN  IF eid = <<>>
           THEN UNCHANGED <<eid_to_group, group_info>>
           ELSE /\ eid_to_group' = DictSet(eid_to_group, eid, group_key_of(row))
                /\ group_info' = IngestGroup(group_info, row, eid)
    /\ UNCHANGED <<ncand, limit, ci, pc, eids, idx, records_left, rec, party_map, out_files,
                   observed, recs_used, lookup, requested>>
    /\ OtherTools

\* the reader is exhausted: choose the eids and start an empty accumulator
EndOfFile ==
    /\ pc = "ingest"
    /\ eids' = EidsToFetch(eid_to_group, limit)
    /\ party_map' = <<>>
    /\ observed' = NoSums
    /\ idx' = 1
    /\ pc' = "fetch"
    /\ requested' = <<>>
    /\ UNCHANGED <<ncand, limit, ci, rows_read, eid_to_group, group_info, records_left, rec,
                   out_files, rows_used, recs_used, lookup>>
    /\ OtherTools

\* data = run_playwright_for_eid(page, eid); records = data.get("records") or []
\* for a response whose body is a JSON object
Fetch(n) ==
    /\ pc = "fetch"
    /\ idx <= Len(eids)
    /\ recs_used + n <= MaxRecs
    /\ recs_used' = recs_used + n
    /\ records_left' = n
    /\ pc' = "records"
    /\ lookup' = "ok"
    /\ requested' = Append(requested, eids[idx])
    /\ UNCHANGED <<ncand, limit, ci, rows_read, eid_to_group, group_info, eids, idx, rec,
                   party_map, out_files, observed, rows_used>>
    /\ OtherTools

\* run_playwright_for_eid returns {}: the page load or the wait for the
\* response raised (network error, timeout), the body is empty, or json.loads
\* raised; records is []
FetchFailed ==
    /\ pc = "fetch"
    /\ idx <= Len(eids)
    /\ records_left' = 0
    /\ pc' = "records"
    /\ lookup' = "failed"
    /\ requested' = Append(requested, eids[idx])
    /\ UNCHANGED <<ncand, limit, ci, rows_read, eid_to_group, group_info, eids, idx, rec,
                   party_map, out_files, observed, rows_used, recs_used>>
    /\ OtherTools

\* json.loads returns a value that is not an object (a list, a string, a
\* number): data.get raises AttributeError outside every try, main ends with
\* the traceback
FetchUnexpected ==
    /\ pc = "fetch"
    /\ idx <= Len(eids)
    /\ pc' = "aborted"
    /\ lookup' = "unexpected"
    /\ requested' = Append(requested, eids[idx])
    /\ UNCHANGED <<ncand, limit, ci, rows_read, eid_to_group, group_info, eids, idx,
                   records_left, rec, party_map, out_files, observed, rows_used, recs_used>>
    /\ OtherTools

\* an observation the accumulator is to count: a positive amount under a
\* non-empty party label, for an identifier that resolves
Counted(r) ==
    /\ r.party # NoneVal /\ r.party # <<>>
    /\ parse_float(r.total) > 0
    /\ DictHas(eid_to_group, eids[idx])

Observe(obs, r) ==
    IF Counted(r)
    THEN LET cell == <<r.party, DictAt(eid_to_group, eids[idx])>>
             old == IF cell \in DOMAIN obs THEN obs[cell] ELSE [sum |-> 0, eids |-> {}]
         IN  (cell :> [sum |-> old.sum + parse_float(r.total),
                       eids |-> old.eids \cup {eids[idx]}])
             @@ [q \in DOMAIN obs \ {cell} |-> obs[q]]
    ELSE obs

\* for rec in records: one record of the response
RecordStep(r) ==
    /\ pc = "records"
    /\ records_left > 0
    /\ records_left' = records_left - 1
    /\ rec' = r
    /\ party_map' = Record(party_map, eid_to_group, eids[idx], r)
    /\ observed' = Observe(observed, r)
    /\ UNCHANGED <<ncand, limit, ci, pc, rows_read, eid_to_group, group_info, eids, idx,
                   out_files, rows_used, recs_used, lookup, requested>>
    /\ OtherTools

\* mutant of Sleep: the next eid at once
SleepSkipped ==
    /\ pc = "records"
    /\ records_left = 0
    /\ idx' = idx + 1
    /\ rec' = NoRec
    /\ pc' = "fetch"
    /\ UNCHANGED <<ncand, limit, ci, rows_read, eid_to_group, group_info, eids,
                   records_left, party_map, out_files, observed, rows_used, recs_used,
                   lookup, requested>>
    /\ OtherTools

\* time.sleep(args.sleep), then the next eid
Sleep ==
    /\ pc = "records"
    /\ records_left = 0
    /\ idx' = idx + 1
    /\ rec' = NoRec
    /\ pc' = "fetch"
    /\ lookup' = "slept"
    /\ UNCHANGED <<ncand, limit, ci, rows_read, eid_to_group, group_info, eids,
                   records_left, party_map, out_files, observed, rows_used, recs_used,
                   requested>>
    /\ OtherTools

\* mutant of WriteOutputs: the next csv_path goes on with the tables of this one
WriteOutputsKeepTables ==
    /\ pc = "fetch"
    /\ idx > Len(eids)
    /\ out_files' = WriteParties(out_files, ci, group_info, party_map)
    /\ ci' = ci + 1
    /\ pc' = IF ci < ncand THEN "ingest" ELSE "done"
    /\ rows_read' = IF ci < ncand THEN <<>> ELSE rows_read
    /\ UNCHANGED <<ncand, limit, eid_to_group, group_info, eids, idx, records_left, rec,
                   party_map, observed, rows_used, recs_used, lookup, requested>>
    /\ OtherTools

\* write the per-party files of this candidate, then the next csv_path with
\* fresh eid_to_group and group_info, or browser.close() and return 0
WriteOutputs ==
    /\ pc = "fetch"
    /\ idx > Len(eids)
    /\ out_files' = WriteParties(out_files, ci, group_info, party_map)
    /\ ci' = ci + 1
    /\ IF ci < ncand
       THEN /\ pc' = "ingest"
            /\ rows_read' = <<>>
            /\ eid_to_group' = <<>>
            /\ group_info' = <<>>
       ELSE /\ pc' = "done"
            /\ UNCHANGED <<rows_read, eid_to_group, group_info>>
    /\ UNCHANGED <<ncand, limit, eids, idx, records_left, rec, party_map, observed,
                   rows_used, recs_used, lookup, requested>>
    /\ OtherTools

AggNext ==
    \/ \E row \in DonorRows : ReadRow(row)
    \/ EndOfFile
    \/ \E n \in 0..MaxRecs : Fetch(n)
    \/ FetchFailed
    \/ FetchUnexpected
    \/ \E r \in LookupRecs : RecordStep(r)
    \/ Sleep
    \/ WriteOutputs

\* a run against the service of LabelRecs
LabelsNext ==
    \/ \E row \in DonorRows : ReadRow(row)
    \/ EndOfFile
    \/ \E n \in 0..MaxRecs : Fetch(n)
    \/ FetchFailed
    \/ FetchUnexpected
    \/ \E r \in LabelRecs : RecordStep(r)
    \/ Sleep
    \/ WriteOutputs

\* the aggregator is not running
AggIdle ==
    /\ ncand = 0
    /\ limit = 0
    /\ ci = 0
    /\ pc = "idle"
    /\ rows_read = <<>>
    /\ eid_to_group = <<>>
    /\ group_info = <<>>
    /\ eids = <<>>
    /\ idx = 0
    /\ records_left = 0
    /\ rec = NoRec
    /\ party_map = <<>>
    /\ out_files = NoFiles
    /\ observed = NoSums
    /\ rows_used = 0
    /\ recs_used = 0
    /\ lookup = "none"
    /\ requested = <<>>

\* ------------------------------------------------------- the canonicalizer

CanonFields == {"entityName", "firstName", "middleInitial", "lastName", "city", "state"}

\* what a canonical field of a row may hold: nothing, blanks, and texts that
\* differ in padding, in letter case and in inner blanks
FieldTexts ==
    { NoneVal, <<>>, <<" ">>, <<"a">>, <<" ", "a", " ", " ">>, <<"A">>,
      <<"a", " ", "b">>, <<"a", " ", " ", "b">> }

CanonIdle == canon_in = <<>> /\ canon_out = <<>>

\* two rows that differ in at most one field
CanonInit ==
    /\ \E f \in CanonFields, g \in CanonFields, u \in FieldTexts, v \in FieldTexts, w \in FieldTexts :
           canon_in = <<[[BlankRow EXCEPT ![f] = u] EXCEPT ![g] = v],
                        [[BlankRow EXCEPT ![f] = u] EXCEPT ![g] = w]>>
    /\ canon_out = <<>>

\* group_key = (entityName, first, middle, last, city, state) for each row
Canonicalize ==
    /\ canon_in # <<>>
    /\ canon_out = <<>>
    /\ canon_out' = <<group_key_of(canon_in[1]), group_key_of(canon_in[2])>>
    /\ UNCHANGED <<canon_in, aggVars, dupVars, dedVars, catVars, splVars, sumVars, srchVars>>

CanonNext == Canonicalize

\* ---------------------------------------------------------- party csv files

\* header names
F_entityName == <<"e", "n", "t", "i", "t", "y", "N", "a", "m", "e">>

F_firstName == <<"f", "i", "r", "s", "t", "N", "a", "m", "e">>

F_lastName == <<"l", "a", "s", "t", "N", "a", "m", "e">>

F_amount == <<"a", "m", "o", "u", "n", "t">>

F_Amount == <<"A", "m", "o", "u", "n", "t">>

F_donationsToCampaign ==
    <<"d", "o", "n", "a", "t", "i", "o", "n", "s", "T", "o", "C", "a", "m", "p", "a", "i", "g", "n">>

\* the header the aggregator writes
PartyHeader == <<F_entityName, F_firstName, F_lastName, F_amount, F_donationsToCampaign>>

\* the same columns under a capitalised amount column
CapsHeader == <<F_entityName, F_firstName, F_lastName, F_Amount, F_donationsToCampaign>>

\* One csv.DictReader row: the cells of a line under the header's names.  A
\* cell the line does not have is NoneVal.
CsvRow(header, cells) ==
    [f \in {header[i] : i \in 1..Len(header)} |-> cells[IndexOf(header, f)]]

DotCsv == <<".", "c", "s", "v">>

\* Path.stem: the name without its last suffix
PathStem(name) ==
    LET dots == {i \in 2..(Len(name) - 1) : name[i] = "."}
    IN  IF dots = {} THEN name
        ELSE SubSeq(name, 1, (CHOOSE i \in dots : \A j \in dots : j <= i) - 1)

\* sorted() of distinct strings
RECURSIVE SortedStrs(_)
SortedStrs(S) ==
    IF S = {} THEN <<>>
    ELSE LET m == CHOOSE x \in S : \A y \in S \ {x} : StrLess(x, y)
         IN  <<m>> \o SortedStrs(S \ {m})

StemRepublican == <<"r", "e", "p", "u", "b", "l", "i", "c", "a", "n">>

StemDemocratic == <<"d", "e", "m", "o", "c", "r", "a", "t", "i", "c">>

StemNonpartisan == <<"n", "o", "n", "p", "a", "r", "t", "i", "s", "a", "n">>

StemNonpartisanJudges == StemNonpartisan \o <<"-", "j", "u", "d", "g", "e", "s">>

StemLibertarian == <<"l", "i", "b", "e", "r", "t", "a", "r", "i", "a", "n">>

\* The rows of the file `stem` among the entries <<stem, cells>> of a
\* directory listing; an entry whose cells are NoneVal stands for the file
\* itself (a header and no row).
RECURSIVE RowsFor(_, _, _)
RowsFor(es, stem, header) ==
    IF es = <<>> THEN <<>>
    ELSE (IF es[1][1] = stem /\ es[1][2] # NoneVal THEN <<CsvRow(header, es[1][2])>> ELSE <<>>)
         \o RowsFor(Tail(es), stem, header)

\* sorted(candidate_dir.glob("*.csv")) with each file read by csv.DictReader:
\* the files named by the entries, in the order of their paths
DirOf(es, HeaderOf(_)) ==
    LET names == SortedStrs({es[i][1] \o DotCsv : i \in 1..Len(es)})
    IN  [i \in 1..Len(names) |->
            [name |-> names[i],
             header |-> HeaderOf(PathStem(names[i])),
             rows |-> RowsFor(es, PathStem(names[i]), HeaderOf(PathStem(names[i])))]]

\* ------------------------------------------ check-for-duplicate-donors.py

\* the rows of all files of the candidate directory together
MaxDupRows == 3

DupStems == {StemRepublican, StemNonpartisan, StemNonpartisanJudges}

\* Cells (entityName, firstName, lastName, amount, donationsToCampaign): an
\* organisation under two amounts, and a person on a line that ends before
\* its last cell and on a padded line whose last cell is empty.
DupCells ==
    { <<AcmePAC, <<>>, <<>>, <<"1", "0", "0">>, <<"$", "1", ",", "0", "0", "0", ".", "5">>>>,
      <<AcmePAC, <<>>, <<>>, <<"2", "5", "0", ".", "5", "0">>, <<"$", "1", ",", "0", "0", "0", ".", "5">>>>,
      <<<<>>, <<"A", "l">>, <<"L", "e", "e">>, <<"1", "0", "0">>, NoneVal>>,
      <<<<>>, <<" ", "A", "l">>, <<"L", "e", "e", " ">>, <<"7">>, <<" ">>>> }

DupEntries == DupStems \X (DupCells \cup {NoneVal})

\* the header of a file: nonpartisan.csv may carry the capitalised column
DupHeader(caps, stem) ==
    IF caps /\ stem = StemNonpartisan THEN CapsHeader ELSE PartyHeader

InSeq(seq, x) == \E i \in 1..Len(seq) : seq[i] = x

\* the keys of `keys` not yet in `fields`, in order
RECURSIVE NewFields(_, _)
NewFields(keys, fields) ==
    IF keys = <<>> THEN <<>>
    ELSE (IF InSeq(fields, Head(keys)) THEN <<>> ELSE <<Head(keys)>>)
         \o NewFields(Tail(keys), fields)

\* the loop of normalize_fields_union: the keys of the first row of each file
RECURSIVE FieldsUnion(_, _)
FieldsUnion(files, fields) ==
    IF files = <<>> THEN fields
    ELSE FieldsUnion(Tail(files),
                     fields \o (IF Head(files).rows = <<>> THEN <<>>
                                ELSE NewFields(Head(files).header, fields)))

normalize_fields_union(rows_by_file) == FieldsUnion(rows_by_file, <<>>)

\* field.lower() != "amount", compared exactly
IsMatchFieldExact(field) == field # F_amount

\* field.lower() != "amount"
IsMatchField(field) == Lower(field) # F_amount

RECURSIVE make_match_key(_, _)
make_match_key(row, match_fields) ==
    IF match_fields = <<>> THEN <<>>
    ELSE (IF IsMatchField(Head(match_fields))
          THEN <<<<Head(match_fields), Strip(OrEmpty(RowGet(row, Head(match_fields))))>>>>
          ELSE <<>>)
         \o make_match_key(row, Tail(match_fields))

display_name_from_row(row) ==
    LET first == Strip(OrEmpty(RowGet(row, F_firstName)))
        last == Strip(OrEmpty(RowGet(row, F_lastName)))
    IN  IF first # <<>> \/ last # <<>> THEN Strip(first \o <<" ">> \o last)
        ELSE Strip(OrEmpty(RowGet(row, F_entityName)))

donations_value_from_row(row) ==
    LET v == Strip(OrEmpty(RowGet(row, F_donationsToCampaign)))
        f == ParseFloat(KeepChars(v, Digits \cup {"-", "."}))
    IN  IF v = <<>> THEN <<"$", "0">>
        ELSE IF ~f.ok THEN v
        ELSE IF FIsInteger(f.val) THEN <<"$">> \o IntStr(f.val)
        ELSE <<"$">> \o Fixed2(f.val)

\* len(files) > 0
IsDuplicateAny(files) == Cardinality(files) > 0

\* len(files) > 1
IsDuplicate(files) == Cardinality(files) > 1

\* the loop over key_to_files.items() that fills `duplicates`
RECURSIVE DuplicateRecords(_, _)
DuplicateRecords(k2f, k2r) ==
    IF k2f = <<>> THEN <<>>
    ELSE LET key == k2f[1][1]
             files == k2f[1][2]
             rep == DictAt(k2r, key)
             files_short == SortedStrs({PathStem(f) : f \in files})
         IN  (IF IsDuplicate(files)
              THEN <<<<display_name_from_row(rep), donations_value_from_row(rep),
                       Join(files_short, <<"/">>)>>>>
              ELSE <<>>)
             \o DuplicateRecords(Tail(k2f), k2r)

\* f"{name} {donated} {files_joined}\n"
DuplicateLine(d) == d[1] \o <<" ">> \o d[2] \o <<" ">> \o d[3]

DupIdle ==
    /\ dup_dir = <<>>
    /\ dup_pc = "idle"
    /\ dup_fi = 0
    /\ dup_ri = 0
    /\ key_to_files = <<>>
    /\ key_to_row = <<>>
    /\ duplicates = <<>>
    /\ dup_out = NoneVal

NotDup == UNCHANGED <<aggVars, canonVars, dedVars, catVars, splVars, sumVars, srchVars>>

\* process_candidate_dir is called on a candidate directory
DupInit ==
    /\ \E n \in 0..MaxDupRows, caps \in BOOLEAN :
         \E es \in [1..n -> DupEntries] :
            dup_dir = DirOf(es, LAMBDA stem : DupHeader(caps, stem))
    /\ dup_pc = "start"
    /\ dup_fi = 1
    /\ dup_ri = 1
    /\ key_to_files = <<>>
    /\ key_to_row = <<>>
    /\ duplicates = <<>>
    /\ dup_out = NoneVal

\* no csv file: return
DupNoFiles ==
    /\ dup_pc = "start"
    /\ dup_dir = <<>>
    /\ dup_pc' = "done"
    /\ UNCHANGED <<dup_dir, dup_fi, dup_ri, key_to_files, key_to_row, duplicates, dup_out>>
    /\ NotDup

\* the files are read and match_fields computed
DupRead ==
    /\ dup_pc = "start"
    /\ dup_dir # <<>>
    /\ dup_pc' = "scan"
    /\ UNCHANGED <<dup_dir, dup_fi, dup_ri, key_to_files, key_to_row, duplicates, dup_out>>
    /\ NotDup

\* for r in rows: one row of the current file
DupScanRow ==
    /\ dup_pc = "scan"
    /\ dup_fi <= Len(dup_dir)
    /\ dup_ri <= Len(dup_dir[dup_fi].rows)
    /\ LET r == dup_dir[dup_fi].rows[dup_ri]
           key == make_match_key(r, normalize_fields_union(dup_dir))
           had == IF DictHas(key_to_files, key) THEN DictAt(key_to_files, key) ELSE {}
       IN  /\ key_to_files' = DictSet(key_to_files, key, had \cup {dup_dir[dup_fi].name})
           /\ key_to_row' = IF DictHas(key_to_row, key) THEN key_to_row
                            ELSE DictSet(key_to_row, key, r)
    /\ dup_ri' = dup_ri + 1
    /\ UNCHANGED <<dup_dir, dup_pc, dup_fi, duplicates, dup_out>>
    /\ NotDup

\* the rows of the current file are exhausted: next file
DupNextFile ==
    /\ dup_pc = "scan"
    /\ dup_fi <= Len(dup_dir)
    /\ dup_ri > Len(dup_dir[dup_fi].rows)
    /\ dup_fi' = dup_fi + 1
    /\ dup_ri' = 1
    /\ UNCHANGED <<dup_dir, dup_pc, key_to_files, key_to_row, duplicates, dup_out>>
    /\ NotDup

\* all rows scanned: collect the duplicates and write the report
DupWrite ==
    /\ dup_pc = "scan"
    /\ dup_fi > Len(dup_dir)
    /\ duplicates' = DuplicateRecords(key_to_files, key_to_row)
    /\ dup_out' = [i \in 1..Len(duplicates') |-> DuplicateLine(duplicates'[i])]
    /\ dup_pc' = "done"
    /\ UNCHANGED <<dup_dir, dup_fi, dup_ri, key_to_files, key_to_row>>
    /\ NotDup

DupNext ==
    \/ DupNoFiles
    \/ DupRead
    \/ DupScanRow
    \/ DupNextFile
    \/ DupWrite

\* ---------------------------------------------- dedupe-donor-output.py

\* the rows of all files of the candidate directory together
MaxDedRows == 3

DedStems == {StemRepublican, StemDemocratic, StemNonpartisan, StemLibertarian}

\* Cells (entityName, firstName, lastName, amount, donationsToCampaign): an
\* organisation written two ways with one self-reported total, a person
\* without a self-reported total under two amounts, and an empty line.
DedCells ==
    { <<AcmePAC, <<>>, <<>>, <<"1", "0", "0">>, <<"5">>>>,
      <<<<" ", "a", "c", "m", "e", " ", " ", "P", "A", "C">>, <<>>, <<>>, <<"7">>,
        <<"$", "5", ".", "0", "0">>>>,
      <<<<>>, <<"A", "l">>, <<"L", "e", "e">>, <<"1", "0", "0">>, <<>>>>,
      <<<<>>, <<"A", "l">>, <<"L", "e", "e">>, <<"1", "2", ".", "5">>, NoneVal>>,
      <<<<>>, <<>>, <<>>, <<>>, <<>>>> }

DedEntries == DedStems \X DedCells

DedHeader(stem) == PartyHeader

F_EntityName == <<"E", "n", "t", "i", "t", "y", "N", "a", "m", "e">>

F_FirstName == <<"F", "i", "r", "s", "t", "N", "a", "m", "e">>

F_LastName == <<"L", "a", "s", "t", "N", "a", "m", "e">>

F_donation == <<"d", "o", "n", "a", "t", "i", "o", "n">>

\* bool(x) of a str or None
Truthy(x) == x # NoneVal /\ x # <<>>

\* a or b
PyOr(a, b) == IF Truthy(a) THEN a ELSE b

\* the same rules as compute-party-splits.py, kept as a copy by this script
dedupe_category(stem) ==
    LET s == Lower(stem)
    IN  IF Contains(s, <<"r", "e", "p", "u", "b", "l", "i", "c">>) THEN "republican"
        ELSE IF Contains(s, <<"d", "e", "m", "o", "c">>) THEN "democratic"
        ELSE IF \/ Contains(s, <<"n", "o", "n">>)
                \/ Contains(s, <<"n", "o", "-", "p", "a", "r", "t", "y">>)
                \/ Contains(s, StemNonpartisan)
             THEN "nonpartisan"
        ELSE "thirdParty"

normalize_name(s) ==
    IF ~Truthy(s) THEN <<>> ELSE Join(Words(Lower(Strip(s)), <<>>), <<" ">>)

\* str(f) of a float: the shortest decimal text, with at least one
\* fractional digit
FloatStr(a) ==
    LET m == IF a < 0 THEN 0 - a ELSE a
    IN  (IF a < 0 THEN <<"-">> ELSE <<>>)
        \o NatStr(m \div 100) \o <<".">> \o <<DigitChar((m % 100) \div 10)>>
        \o (IF m % 10 = 0 THEN <<>> ELSE <<DigitChar(m % 10)>>)

normalize_donation(s) ==
    IF ~Truthy(s) THEN <<>>
    ELSE LET t == DropChar(LStripChar(Strip(s), "$"), ",")
             f == ParseFloat(t)
         IN  IF ~f.ok THEN Lower(t)
             ELSE IF FIsInteger(f.val) THEN IntStr(f.val)
             ELSE FloatStr(f.val)

\* the donation falls back to the amount column
make_match_key_from_row(row) ==
    LET entity == Strip(OrEmpty(PyOr(RowGet(row, F_entityName), RowGet(row, F_EntityName))))
        donation == normalize_donation(
                        PyOr(PyOr(PyOr(RowGet(row, F_donationsToCampaign),
                                       RowGet(row, F_donationsToCampaign)),
                                  RowGet(row, F_donation)),
                             RowGet(row, F_amount)))
        first == Strip(OrEmpty(PyOr(RowGet(row, F_firstName), RowGet(row, F_FirstName))))
        last == Strip(OrEmpty(PyOr(RowGet(row, F_lastName), RowGet(row, F_LastName))))
    IN  IF entity # <<>> THEN <<normalize_name(entity), donation>>
        ELSE IF first # <<>> \/ last # <<>> \/ donation # <<>>
             THEN <<normalize_name(first), normalize_name(last), donation>>
        ELSE NoneVal

\* the rows of the file called name, none when there is no such file
RowsOfFile(dir, name) ==
    IF \E i \in 1..Len(dir) : dir[i].name = name
    THEN dir[CHOOSE i \in 1..Len(dir) : dir[i].name = name].rows
    ELSE <<>>

build_rep_dem_keys(candidate_dir) ==
    LET rows == RowsOfFile(candidate_dir, StemRepublican \o DotCsv)
                \o RowsOfFile(candidate_dir, StemDemocratic \o DotCsv)
    IN  {make_match_key_from_row(rows[i]) : i \in 1..Len(rows)} \ {NoneVal}

\* k and k in repdem_keys
Removed(row, keys) ==
    make_match_key_from_row(row) # NoneVal /\ make_match_key_from_row(row) \in keys

\* the rows appended to `kept`
RECURSIVE Kept(_, _)
Kept(rows, keys) ==
    IF rows = <<>> THEN <<>>
    ELSE (IF Removed(Head(rows), keys) THEN <<>> ELSE <<Head(rows)>>) \o Kept(Tail(rows), keys)

\* a row as csv.DictWriter writes it and a later reader reads it: a None
\* cell is written as an empty cell
Rewritten(row) == [f \in DOMAIN row |-> OrEmpty(row[f])]

DedIdle ==
    /\ ded_dir = <<>>
    /\ ded_orig = <<>>
    /\ ded_pc = "idle"
    /\ ded_fi = 0
    /\ repdem_keys = {}
    /\ ded_report = <<>>
    /\ ded_run = 1
    /\ ded_first = <<>>

NotDed == UNCHANGED <<aggVars, canonVars, dupVars, catVars, splVars, sumVars, srchVars>>

\* process_candidate is called on a candidate directory
DedInit ==
    /\ \E n \in 0..MaxDedRows : \E es \in [1..n -> DedEntries] : ded_dir = DirOf(es, DedHeader)
    /\ ded_orig = ded_dir
    /\ ded_pc = "start"
    /\ ded_fi = 1
    /\ repdem_keys = {}
    /\ ded_report = <<>>
    /\ ded_run = 1
    /\ ded_first = <<>>

\* repdem_keys = build_rep_dem_keys(candidate_dir); return when it is empty
DedBuildKeys ==
    /\ ded_pc = "start"
    /\ repdem_keys' = build_rep_dem_keys(ded_dir)
    /\ ded_pc' = IF repdem_keys' = {} THEN "done" ELSE "files"
    /\ UNCHANGED <<ded_dir, ded_orig, ded_fi, ded_report, ded_run, ded_first>>
    /\ NotDed

\* a file that is not nonpartisan or thirdParty: continue
DedSkipFile ==
    /\ ded_pc = "files"
    /\ ded_fi <= Len(ded_dir)
    /\ dedupe_category(PathStem(ded_dir[ded_fi].name)) \notin {"nonpartisan", "thirdParty"}
    /\ ded_fi' = ded_fi + 1
    /\ UNCHANGED <<ded_dir, ded_orig, ded_pc, repdem_keys, ded_report, ded_run, ded_first>>
    /\ NotDed

\* mutant of DedFile: the file is rewritten whether or not a row was dropped
DedFileAlwaysRewritten ==
    /\ ded_pc = "files"
    /\ ded_fi <= Len(ded_dir)
    /\ dedupe_category(PathStem(ded_dir[ded_fi].name)) \in {"nonpartisan", "thirdParty"}
    /\ LET rows == ded_dir[ded_fi].rows
           kept == Kept(rows, repdem_keys)
       IN  /\ ded_dir' = [ded_dir EXCEPT ![ded_fi].rows = [i \in 1..Len(kept) |-> Rewritten(kept[i])]]
           /\ ded_report' = Append(ded_report,
                                   [name |-> ded_dir[ded_fi].name,
                                    removed |-> Len(rows) - Len(kept), kept |-> Len(kept)])
    /\ ded_fi' = ded_fi + 1
    /\ UNCHANGED <<ded_orig, ded_pc, repdem_keys, ded_run, ded_first>>
    /\ NotDed

\* a nonpartisan or thirdParty file: drop the rows with a known key, rewrite
\* the file when a row was dropped, print the counts
DedFile ==
    /\ ded_pc = "files"
    /\ ded_fi <= Len(ded_dir)
    /\ dedupe_category(PathStem(ded_dir[ded_fi].name)) \in {"nonpartisan", "thirdParty"}
    /\ LET rows == ded_dir[ded_fi].rows
           kept == Kept(rows, repdem_keys)
           removed == Len(rows) - Len(kept)
       IN  /\ ded_dir' = IF removed > 0
                         THEN [ded_dir EXCEPT ![ded_fi].rows = [i \in 1..Len(kept) |-> Rewritten(kept[i])]]
                         ELSE ded_dir
           /\ ded_report' = Append(ded_report,
                                   [name |-> ded_dir[ded_fi].name, removed |-> removed, kept |-> Len(kept)])
    /\ ded_fi' = ded_fi + 1
    /\ UNCHANGED <<ded_orig, ded_pc, repdem_keys, ded_run, ded_first>>
    /\ NotDed

\* the file loop is exhausted
DedFinish ==
    /\ ded_pc = "files"
    /\ ded_fi > Len(ded_dir)
    /\ ded_pc' = "done"
    /\ UNCHANGED <<ded_dir, ded_orig, ded_fi, repdem_keys, ded_report, ded_run, ded_first>>
    /\ NotDed

DedNext ==
    \/ DedBuildKeys
    \/ DedSkipFile
    \/ DedFile
    \/ DedFinish

\* process_candidate is called once more, on the directory as it is now
DedRerun ==
    /\ ded_pc = "done"
    /\ ded_run = 1
    /\ ded_run' = 2
    /\ ded_first' = ded_dir
    /\ ded_pc' = "start"
    /\ ded_fi' = 1
    /\ repdem_keys' = {}
    /\ ded_report' = <<>>
    /\ UNCHANGED <<ded_dir, ded_orig>>
    /\ NotDed

DedTwiceNext == DedNext \/ DedRerun

\* ------------------------------------------------ compute-party-splits.py

Categories == {"republican", "democratic", "thirdParty", "nonpartisan"}

\* the rule for "non" tried first
map_party_stem_non_first(stem) ==
    LET s == Lower(stem)
    IN  IF \/ Contains(s, <<"n", "o", "n">>)
           \/ Contains(s, <<"n", "o", "-", "p", "a", "r", "t", "y">>)
           \/ Contains(s, StemNonpartisan)
        THEN "nonpartisan"
        ELSE IF Contains(s, <<"r", "e", "p", "u", "b", "l", "i", "c">>) THEN "republican"
        ELSE IF Contains(s, <<"d", "e", "m", "o", "c">>) THEN "democratic"
        ELSE "thirdParty"

map_party_stem_to_category(stem) ==
    LET s == Lower(stem)
    IN  IF Contains(s, <<"r", "e", "p", "u", "b", "l", "i", "c">>) THEN "republican"
        ELSE IF Contains(s, <<"d", "e", "m", "o", "c">>) THEN "democratic"
        ELSE IF \/ Contains(s, <<"n", "o", "n">>)
                \/ Contains(s, <<"n", "o", "-", "p", "a", "r", "t", "y">>)
                \/ Contains(s, StemNonpartisan)
             THEN "nonpartisan"
        ELSE "thirdParty"

\* The stems given to map_party_stem_to_category: a prefix, a middle and a
\* suffix, among them the rule words whole, capitalised and cut short.
StemPrefixes ==
    { <<>>, <<"G", "O", "P", "-">>, <<"n", "o", "n">>, <<"N", "o", "-">>, <<"N", "O", "N", "-">> }

StemMiddles ==
    { <<>>, <<"r", "e", "p", "u", "b", "l", "i", "c">>, <<"R", "e", "P", "U", "B", "L", "I", "C">>,
      <<"r", "e", "p", "u", "b", "l", "i">>, <<"d", "e", "m", "o", "c">>, <<"D", "E", "M", "O", "C">>,
      <<"d", "e", "m", "o">>, <<"p", "a", "r", "t", "i", "s", "a", "n">>, <<"p", "a", "r", "t", "y">>,
      <<"l", "i", "b">> }

StemSuffixes ==
    { <<>>, <<"a", "n">>, <<"a", "n", "-", "c", "e", "n", "t", "r", "a", "l">>,
      <<"-", "j", "u", "d", "g", "e", "s">>, <<"e", "r", "t", "a", "r", "i", "a", "n">>,
      <<"-", "d", "e", "m", "o", "c", "r", "a", "t", "s">> }

CatStems == {a \o b \o c : a \in StemPrefixes, b \in StemMiddles, c \in StemSuffixes}

\* no call has returned
NoCategory == ""

CatIdle == cat_stem = <<>> /\ cat_out = NoCategory

NotCat == UNCHANGED <<aggVars, canonVars, dupVars, dedVars, splVars, sumVars, srchVars>>

CatInit ==
    /\ cat_stem \in CatStems
    /\ cat_out = NoCategory

\* cat = map_party_stem_to_category(stem)
Categorize ==
    /\ cat_out = NoCategory
    /\ cat_out' = map_party_stem_to_category(cat_stem)
    /\ UNCHANGED cat_stem
    /\ NotCat

CatNext == Categorize

\* the entries of by-donor-output: rows of party files, empty candidate
\* directories and the stray file together
MaxSplRows == 2

F_total == <<"t", "o", "t", "a", "l">>

F_sum == <<"s", "u", "m">>

\* a header without a donation column, and one without an amount column too
AmountHeader == <<F_entityName, F_firstName, F_lastName, F_Amount, F_total>>

PlainHeader == <<F_entityName, F_firstName, F_lastName, F_sum, F_total>>

SplHeaders == {PartyHeader, AmountHeader, PlainHeader}

SplCands == { <<"a", "l", "_", "l", "e", "e">>,
              <<"j", "e", "n", "n", "i", "f", "e", "r", "-", "o", "w", "e", "n">> }

\* a file lying in by-donor-output beside the candidate directories
StrayFile == <<"d", "o", "n", "o", "r", "s", "-", "x">> \o DotCsv

SplStems == {StemRepublican, StemDemocratic, StemNonpartisan, StemLibertarian}

\* Cells (entityName, firstName, lastName, amount, last column)
SplCells ==
    { <<AcmePAC, <<>>, <<>>, <<"7">>, <<"1", "0", "0">>>>,
      <<AcmePAC, <<>>, <<>>, <<"2", "5">>, <<"$", "1", "2", ".", "5", "0">>>>,
      <<AcmePAC, <<>>, <<>>, <<>>, <<"-", "5", "0">>>> }

\* An entry of the listing of by-donor-output: the stray file, a candidate
\* directory alone, or a row <<stem, cells>> of one of its party files.
SplEntries ==
    {<<StrayFile, NoneVal>>} \cup (SplCands \X ({NoneVal} \cup (SplStems \X SplCells)))

RECURSIVE FileEntries(_, _)
FileEntries(es, cand) ==
    IF es = <<>> THEN <<>>
    ELSE (IF es[1][1] = cand /\ es[1][2] # NoneVal THEN <<es[1][2]>> ELSE <<>>)
         \o FileEntries(Tail(es), cand)

\* sorted(root.iterdir()): the entries of by-donor-output in path order, each
\* directory with its sorted party files
RootOf(es, header) ==
    LET names == SortedStrs({es[i][1] : i \in 1..Len(es)})
    IN  [i \in 1..Len(names) |->
            [name |-> names[i],
             is_dir |-> names[i] # StrayFile,
             files |-> IF names[i] = StrayFile THEN <<>>
                       ELSE DirOf(FileEntries(es, names[i]), LAMBDA stem : header)]]

RECURSIVE FirstWith(_, _)
FirstWith(fieldnames, word) ==
    IF fieldnames = <<>> THEN NoneVal
    ELSE IF Head(fieldnames) # <<>> /\ Contains(Lower(Head(fieldnames)), word) THEN Head(fieldnames)
    ELSE FirstWith(Tail(fieldnames), word)

find_amount_field(fieldnames) == FirstWith(fieldnames, F_amount)

find_donation_field(fieldnames) == FirstWith(fieldnames, <<"d", "o", "n", "a", "t">>)

\* float(text) if text else 0.0
FloatOrZero(text) == IF text = <<>> THEN [ok |-> TRUE, val |-> 0] ELSE ParseFloat(text)

\* the number one value adds to the total
PreferredValue(v) ==
    LET clean == FloatOrZero(KeepChars(v, Digits \cup {"-", "."}))
        stripped == FloatOrZero(KeepChars(v, Digits \cup {"-", ".", "'"}))
    IN  IF clean.ok THEN clean.val
        ELSE IF stripped.ok THEN stripped.val
        ELSE 0

RECURSIVE SumField(_, _)
SumField(rows, field) ==
    IF rows = <<>> THEN 0
    ELSE LET v == Strip(OrEmpty(RowGet(Head(rows), field)))
         IN  (IF v = <<>> THEN 0 ELSE PreferredValue(v)) + SumField(Tail(rows), field)

\* mutant of sum_preferred_amounts_in_csv: the amount column is preferred
sum_amount_preferred(file) ==
    LET field == PyOr(find_amount_field(file.header), find_donation_field(file.header))
    IN  IF ~Truthy(field) THEN 0 ELSE SumField(file.rows, field)

sum_preferred_amounts_in_csv(file) ==
    LET field == PyOr(find_donation_field(file.header), find_amount_field(file.header))
    IN  IF ~Truthy(field) THEN 0 ELSE SumField(file.rows, field)

UpperChar(c) ==
    IF \E i \in 1..Len(Lowers) : Lowers[i] = c THEN Uppers[IndexOf(Lowers, c)] ELSE c

IsLetter(c) == (\E i \in 1..Len(Lowers) : Lowers[i] = c) \/ (\E i \in 1..Len(Uppers) : Uppers[i] = c)

\* str.title(): a letter after a non-letter is capitalised, the others lowered
RECURSIVE Title(_, _)
Title(p, after_letter) ==
    IF p = <<>> THEN <<>>
    ELSE <<IF after_letter THEN LowerChar(Head(p)) ELSE UpperChar(Head(p))>>
         \o Title(Tail(p), IsLetter(Head(p)))

format_candidate_name(raw) ==
    LET parts == Words(ReplaceChar(ReplaceChar(raw, "-", " "), "_", " "), <<>>)
    IN  IF raw = <<>> THEN raw
        ELSE Join([i \in 1..Len(parts) |-> Title(parts[i], FALSE)], <<" ">>)

ZeroSums == [k \in Categories |-> 0]

SumOf(s) == s["republican"] + s["democratic"] + s["thirdParty"] + s["nonpartisan"]

\* A percentage is the fraction num / den; the quotient of two floats times
\* 100.0 is modelled as the exact fraction.
ZeroPerc == [num |-> 0, den |-> 1]

\* (sums[k] / total) * 100.0 for every k, whatever the total
PercentagesUnguarded(s, total) ==
    [k \in Categories |-> [num |-> s[k] * 100, den |-> total]]

\* perc, lines 132-135
Percentages(s, total) ==
    IF total <= 0 THEN [k \in Categories |-> ZeroPerc]
    ELSE [k \in Categories |-> [num |-> s[k] * 100, den |-> total]]

\* f"{x:.2f}" of the fraction num / den, den > 0: the nearest hundredth, a
\* tie going to the even one; a negative value keeps its sign when it rounds
\* to zero
FixedRatio(p) ==
    LET m == IF p.num < 0 THEN 0 - p.num ELSE p.num
        q == (m * 100) \div p.den
        r == (m * 100) % p.den
        h == IF 2 * r > p.den \/ (2 * r = p.den /\ q % 2 = 1) THEN q + 1 ELSE q
    IN  (IF p.num < 0 THEN <<"-">> ELSE <<>>) \o Fixed2(h)

SplitsHeader == <<"candidate", "republican", "democratic", "thirdParty", "nonpartisan">>

SplIdle ==
    /\ spl_root = <<>>
    /\ spl_pc = "idle"
    /\ spl_ci = 0
    /\ spl_fi = 0
    /\ sums = ZeroSums
    /\ out_rows = <<>>
    /\ splits_csv = <<>>

NotSpl == UNCHANGED <<aggVars, canonVars, dupVars, dedVars, catVars, sumVars, srchVars>>

\* main starts on an existing by-donor-output
SplInit ==
    /\ \E n \in 0..MaxSplRows, header \in SplHeaders :
         \E es \in [1..n -> SplEntries] : spl_root = RootOf(es, header)
    /\ spl_pc = "files"
    /\ spl_ci = 1
    /\ spl_fi = 1
    /\ sums = ZeroSums
    /\ out_rows = <<>>
    /\ splits_csv = <<>>

\* an entry that is not a directory: continue
SplSkipEntry ==
    /\ spl_pc = "files"
    /\ spl_ci <= Len(spl_root)
    /\ ~spl_root[spl_ci].is_dir
    /\ spl_ci' = spl_ci + 1
    /\ UNCHANGED <<spl_root, spl_pc, spl_fi, sums, out_rows, splits_csv>>
    /\ NotSpl

\* one party file of the candidate: its sum goes to the category of its stem
SplFile ==
    /\ spl_pc = "files"
    /\ spl_ci <= Len(spl_root)
    /\ spl_root[spl_ci].is_dir
    /\ spl_fi <= Len(spl_root[spl_ci].files)
    /\ LET file == spl_root[spl_ci].files[spl_fi]
           cat == map_party_stem_to_category(PathStem(file.name))
       IN  sums' = [sums EXCEPT ![cat] = @ + sum_preferred_amounts_in_csv(file)]
    /\ spl_fi' = spl_fi + 1
    /\ UNCHANGED <<spl_root, spl_pc, spl_ci, out_rows, splits_csv>>
    /\ NotSpl

\* the files of the candidate are exhausted: its percentages are appended,
\* and the next candidate starts from new sums
SplCandidate ==
    /\ spl_pc = "files"
    /\ spl_ci <= Len(spl_root)
    /\ spl_root[spl_ci].is_dir
    /\ spl_fi > Len(spl_root[spl_ci].files)
    /\ LET perc == Percentages(sums, SumOf(sums))
       IN  out_rows' = Append(out_rows,
                              <<format_candidate_name(spl_root[spl_ci].name), perc["republican"],
                                perc["democratic"], perc["thirdParty"], perc["nonpartisan"]>>)
    /\ sums' = IF \E i \in (spl_ci + 1)..Len(spl_root) : spl_root[i].is_dir THEN ZeroSums ELSE sums
    /\ spl_ci' = spl_ci + 1
    /\ spl_fi' = 1
    /\ UNCHANGED <<spl_root, spl_pc, splits_csv>>
    /\ NotSpl

\* the entries are exhausted: splits.csv is written
SplWrite ==
    /\ spl_pc = "files"
    /\ spl_ci > Len(spl_root)
    /\ splits_csv' = <<SplitsHeader>>
                     \o [i \in 1..Len(out_rows) |->
                            <<out_rows[i][1], FixedRatio(out_rows[i][2]), FixedRatio(out_rows[i][3]),
                              FixedRatio(out_rows[i][4]), FixedRatio(out_rows[i][5])>>]
    /\ spl_pc' = "done"
    /\ UNCHANGED <<spl_root, spl_ci, spl_fi, sums, out_rows>>
    /\ NotSpl

SplNext ==
    \/ SplSkipEntry
    \/ SplFile
    \/ SplCandidate
    \/ SplWrite

\* ------------------------- compute-party-splits.py: one file's preferred sum

MaxSumRows == 2

F_Donation == <<"D", "o", "n", "a", "t", "i", "o", "n">>

\* a header with two donation columns, the first one capitalised and placed
\* after an amount column
TwoDonationHeader == <<F_entityName, F_amount, F_Donation, F_total, F_donationsToCampaign>>

\* a header whose only amount column has an empty name before it
BlankNameHeader == <<F_entityName, <<>>, F_lastName, F_Amount, F_total>>

SumHeaders == {PartyHeader, TwoDonationHeader, BlankNameHeader, PlainHeader}

\* Cells of a row: a name, then the four other columns.  The texts hold
\* currency signs, thousands separators (comma and apostrophe), blanks, signs in
\* the wrong place, several dots, letters only; the last cell may be missing.
SumCells ==
    { <<AcmePAC, <<"7">>, <<"1", "'", "0", "0", "0">>, <<"9">>, <<"$", "1", "2", ".", "5", "0">>>>,
      <<AcmePAC, <<"1", "-", "2">>, <<"1", "-", "2">>, <<"9">>, <<"1", "-", "2">>>>,
      <<AcmePAC, <<"'">>, <<" ", "3", " ">>, <<"9">>, <<"'", "-", "5", "0">>>>,
      <<AcmePAC, <<"1", ".", "2", ".", "3">>, <<"'", ".", "'">>, <<"9">>, <<"a", "b", "c">>>>,
      <<AcmePAC, <<"-", "5", "0">>, <<>>, <<"9">>, <<" ">>>>,
      <<AcmePAC, <<"2", "5">>, <<"4", "'">>, <<"9">>, NoneVal>>,
      <<AcmePAC, <<"1", ",", "0", "0", "0", ".", "5">>, <<"-">>, <<"9">>, <<"5", "'", "5", "'", "5">>>>,
      <<AcmePAC, <<"$", "-", "1">>, <<".", "5">>, <<"9">>, <<"1", "0", "0">>>> }

SumIdle == sum_file = [header |-> <<>>, rows |-> <<>>] /\ sum_pc = "idle" /\ sum_total = 0

\* the function is called on a csv file
SumInit ==
    /\ \E header \in SumHeaders : \E n \in 0..MaxSumRows : \E cells \in [1..n -> SumCells] :
           sum_file = [header |-> header, rows |-> [i \in 1..n |-> CsvRow(header, cells[i])]]
    /\ sum_pc = "start"
    /\ sum_total = 0

\* the call returns
SumPreferred ==
    /\ sum_pc = "start"
    /\ sum_total' = sum_preferred_amounts_in_csv(sum_file)
    /\ sum_pc' = "done"
    /\ UNCHANGED <<sum_file, aggVars, canonVars, dupVars, dedVars, catVars, splVars, srchVars>>

SumNext == SumPreferred

\* ----------------------------------------- search-users.py: the query loop

MaxSrchRows == 2

\* how many contributions files are matched
SrchFileCounts == {1, 2}

\* Rows of a contributions file: a person, an organisation, a first name alone
SrchRows ==
    { [first |-> <<"A", "l">>, last |-> <<"L", "e", "e">>, entity |-> <<>>],
      [first |-> <<>>, last |-> <<>>, entity |-> AcmePAC],
      [first |-> <<"A", "l">>, last |-> <<>>, entity |-> <<>>] }

\* how requests.get can end: RequestException, a status other than 200, 200
SrchOutcomes == {"error", "status", "ok"}

\* "name", "entity", or no query for the row
query_type(row) ==
    IF row.first # <<>> /\ row.last # <<>> THEN "name"
    ELSE IF row.entity # <<>> THEN "entity"
    ELSE "skip"

SrchIdle ==
    /\ srch_files = <<>>
    /\ srch_test = FALSE
    /\ srch_pc = "idle"
    /\ srch_fi = 0
    /\ srch_ri = 0
    /\ srch_resp = "none"
    /\ srch_last = "none"

NotSrch == UNCHANGED <<aggVars, canonVars, dupVars, dedVars, catVars, splVars, sumVars>>

SrchInit ==
    /\ \E nf \in SrchFileCounts :
           srch_files \in [1..nf -> UNION {[1..n -> SrchRows] : n \in 0..MaxSrchRows}]
    /\ srch_test \in BOOLEAN
    /\ srch_pc = "row"
    /\ srch_fi = 1
    /\ srch_ri = 1
    /\ srch_resp = "none"
    /\ srch_last = "none"

SrchAtRow == srch_pc = "row" /\ srch_ri <= Len(srch_files[srch_fi])

SrchRow == srch_files[srch_fi][srch_ri]

\* else: continue
SrchSkipRow ==
    /\ SrchAtRow
    /\ query_type(SrchRow) = "skip"
    /\ srch_ri' = srch_ri + 1
    /\ UNCHANGED <<srch_files, srch_test, srch_pc, srch_fi, srch_resp, srch_last>>
    /\ NotSrch

\* html = open(args.test_html).read(): no request
SrchLocalHtml ==
    /\ SrchAtRow
    /\ query_type(SrchRow) # "skip"
    /\ srch_test
    /\ srch_pc' = "parse"
    /\ UNCHANGED <<srch_files, srch_test, srch_fi, srch_ri, srch_resp, srch_last>>
    /\ NotSrch

\* requests.get(url, headers=headers, timeout=args.timeout)
SrchRequest(outcome) ==
    /\ SrchAtRow
    /\ query_type(SrchRow) # "skip"
    /\ ~srch_test
    /\ srch_resp' = outcome
    /\ srch_last' = "request"
    /\ srch_pc' = "responded"
    /\ UNCHANGED <<srch_files, srch_test, srch_fi, srch_ri>>
    /\ NotSrch

\* time.sleep(args.delay) on each of the three paths; continue on the two
\* failing ones
SrchSleep ==
    /\ srch_pc = "responded"
    /\ srch_last' = "slept"
    /\ srch_resp' = "none"
    /\ IF srch_resp = "ok"
       THEN srch_pc' = "parse" /\ UNCHANGED srch_ri
       ELSE srch_pc' = "row" /\ srch_ri' = srch_ri + 1
    /\ UNCHANGED <<srch_files, srch_test, srch_fi>>
    /\ NotSrch

\* the rows of the result page are written (their content is not modelled)
SrchParse ==
    /\ srch_pc = "parse"
    /\ srch_pc' = "row"
    /\ srch_ri' = srch_ri + 1
    /\ UNCHANGED <<srch_files, srch_test, srch_fi, srch_resp, srch_last>>
    /\ NotSrch

\* for csv_path in matched: the next file, or the end of main
SrchNextFile ==
    /\ srch_pc = "row"
    /\ srch_ri > Len(srch_files[srch_fi])
    /\ IF srch_fi < Len(srch_files)
       THEN srch_fi' = srch_fi + 1 /\ srch_ri' = 1 /\ UNCHANGED srch_pc
       ELSE srch_pc' = "done" /\ UNCHANGED <<srch_fi, srch_ri>>
    /\ UNCHANGED <<srch_files, srch_test, srch_resp, srch_last>>
    /\ NotSrch

SrchNext ==
    \/ SrchSkipRow
    \/ SrchLocalHtml
    \/ \E outcome \in SrchOutcomes : SrchRequest(outcome)
    \/ SrchSleep
    \/ SrchParse
    \/ SrchNextFile

\* ------------------------------------------------------------ specifications

vars == <<aggVars, toolVars>>

Init == AggInit /\ CanonIdle /\ DupIdle /\ DedIdle /\ CatIdle /\ SplIdle /\ SumIdle /\ SrchIdle

Next == AggNext

\* a run of aggregate-by-party.py
Spec == Init /\ [][Next]_vars

\* a run of aggregate-by-party.py against a service with look-alike labels
SpecLabels == Init /\ [][LabelsNext]_vars

\* the canonicalizer applied to two rows
InitCanon == CanonInit /\ AggIdle /\ DupIdle /\ DedIdle /\ CatIdle /\ SplIdle /\ SumIdle /\ SrchIdle

SpecCanon == InitCanon /\ [][CanonNext]_vars

\* process_candidate_dir on one candidate directory
InitDup == DupInit /\ AggIdle /\ CanonIdle /\ DedIdle /\ CatIdle /\ SplIdle /\ SumIdle /\ SrchIdle

SpecDup == InitDup /\ [][DupNext]_vars

\* process_candidate on one candidate directory
InitDedupe == DedInit /\ AggIdle /\ CanonIdle /\ DupIdle /\ CatIdle /\ SplIdle /\ SumIdle /\ SrchIdle

SpecDedupe == InitDedupe /\ [][DedNext]_vars

\* process_candidate on one candidate directory, then on its own output
SpecDedupeTwice == InitDedupe /\ [][DedTwiceNext]_vars

\* map_party_stem_to_category applied to one stem
InitCat == CatInit /\ AggIdle /\ CanonIdle /\ DupIdle /\ DedIdle /\ SplIdle /\ SumIdle /\ SrchIdle

SpecCat == InitCat /\ [][CatNext]_vars

\* a run of compute-party-splits.py
InitSplits == SplInit /\ AggIdle /\ CanonIdle /\ DupIdle /\ DedIdle /\ CatIdle /\ SumIdle /\ SrchIdle

SpecSplits == InitSplits /\ [][SplNext]_vars

\* sum_preferred_amounts_in_csv applied to one file
InitSum == SumInit /\ AggIdle /\ CanonIdle /\ DupIdle /\ DedIdle /\ CatIdle /\ SplIdle /\ SrchIdle

SpecSum == InitSum /\ [][SumNext]_vars

\* a run of search-users.py over the matched files
InitSearch ==
    SrchInit /\ AggIdle /\ CanonIdle /\ DupIdle /\ DedIdle /\ CatIdle /\ SplIdle /\ SumIdle

\* a run of one of the two scripts that query the remote service
InitLookups == Init \/ InitSearch

LookupsNext == AggNext \/ SrchNext

SpecLookups == InitLookups /\ [][LookupsNext]_vars

\* ---------------------------------------------------- aggregator: claims

AcmeKey == <<AcmePAC, <<>>, <<>>, <<>>, <<>>, <<>>>>

NoIdentityKey == <<<<>>, <<>>, <<>>, <<>>, <<>>, <<>>>>

\* the (party, key) cells of a party table
Cells(pm) ==
    UNION {{<<pm[i][1], pm[i][2][j][1]>> : j \in 1..Len(pm[i][2])} : i \in 1..Len(pm)}

CellValue(pm, party, k) == DictAt(DictAt(pm, party), k)

\* C1: in a candidate's pass, every cell (party, key) of the party table holds
\* the sum of the amounts of the observations with a non-empty party and an
\* amount > 0 whose identifier resolves to that key, and there is no other cell.
C1_CellIsSumOfObservations ==
    /\ Cells(party_map) = DOMAIN observed
    /\ \A c \in DOMAIN observed : CellValue(party_map, c[1], c[2]) = observed[c].sum

\* C1 witness: 100.00 and 50.00 observed under the two identifiers of one
\* group are in one cell, 150.
C1_TwoIdentifiersOneCell ==
    /\ <<Rep, AcmeKey>> \in DOMAIN observed
    /\ observed[<<Rep, AcmeKey>>].eids = {<<"1">>, <<"2">>}
    /\ Cells(party_map) = {<<Rep, AcmeKey>>}
    /\ CellValue(party_map, Rep, AcmeKey) = 15000

\* the rows among rr (the rows read so far) that are ingested under key k
RowsWithKey(rr, k) ==
    {i \in 1..Len(rr) : Field(rr[i], "eid") # <<>> /\ group_key_of(rr[i]) = k}

FirstRowWithKey(rr, k) ==
    rr[CHOOSE i \in RowsWithKey(rr, k) : \A j \in RowsWithKey(rr, k) : i <= j]

FieldsOfFirstRow(gi, rr) ==
    \A n \in 1..Len(gi) :
        LET k == gi[n][1]
            g == gi[n][2]
        IN  /\ RowsWithKey(rr, k) # {}
            /\ LET r == FirstRowWithKey(rr, k)
               IN  /\ g.donationsToCampaign = donations_val_of(r)
                   /\ g.entityName = Field(r, "entityName")
                   /\ g.first = Field(r, "firstName")
                   /\ g.middle = Field(r, "middleInitial")
                   /\ g.last = Field(r, "lastName")
                   /\ g.city = Field(r, "city")
                   /\ g.state = Field(r, "state")

C2_IngestStep ==
    (pc = "ingest" /\ Len(rows_read') = Len(rows_read) + 1) =>
        LET row == rows_read'[Len(rows_read')]
            grown == {n \in 1..Len(group_info) :
                        DictAt(group_info', group_info[n][1]).eids # group_info[n][2].eids}
        IN  /\ \A n \in 1..Len(group_info) :
                   LET k == group_info[n][1]
                       g == group_info[n][2]
                   IN  /\ DictHas(group_info', k)
                       /\ [DictAt(group_info', k) EXCEPT !.eids = g.eids] = g
                       /\ g.eids \subseteq DictAt(group_info', k).eids
                       /\ DictAt(group_info', k).eids \ g.eids \subseteq {Field(row, "eid")}
            /\ Cardinality(grown) <= 1
            /\ FieldsOfFirstRow(group_info', rows_read')

\* C2: ingest is first-writer-wins.  A group's display fields and
\* donationsToCampaign are those of the first row ingested with its key, and a
\* row's ingest changes no field of an existing group, removes no identifier
\* from it and adds at most one identifier, the row's eid.
C2_FirstWriterWins == [][C2_IngestStep]_vars

\* C2 witness: a second row with the key of an existing group, another eid and
\* another donationsToCampaign text has been ingested.
C2_SecondRowSameKey ==
    /\ pc = "ingest"
    /\ Len(rows_read) = 2
    /\ group_key_of(rows_read[1]) = AcmeKey /\ group_key_of(rows_read[2]) = AcmeKey
    /\ donations_val_of(rows_read[1]) # donations_val_of(rows_read[2])
    /\ DictHas(group_info, AcmeKey)
    /\ DictAt(group_info, AcmeKey).eids = {<<"1">>, <<"2">>}

\* C3: a row with an eid and six empty canonical fields creates no group, is
\* not resolvable, and gets no party-table cell and no output row.
C3_NoIdentityRejected ==
    /\ ~DictHas(group_info, NoIdentityKey)
    /\ \A i \in 1..Len(eid_to_group) : eid_to_group[i][2] # NoIdentityKey
    /\ \A c \in Cells(party_map) : c[2] # NoIdentityKey
    /\ \A f \in DOMAIN out_files : \A i \in 1..Len(out_files[f]) :
           <<out_files[f][i][1], out_files[f][i][2], out_files[f][i][3]>> # <<<<>>, <<>>, <<>>>>

\* what the accumulator is to discard: an amount text that does not parse or
\* parses to a value <= 0, an empty or absent party label, an identifier that
\* does not resolve
ToDiscard(r) ==
    LET txt == IF r.total = NoneVal THEN <<"N", "o", "n", "e">> ELSE r.total
        amt == ParseFloat(DropChar(txt, ","))
    IN  \/ ~amt.ok
        \/ amt.val <= 0
        \/ r.party = NoneVal
        \/ r.party = <<>>
        \/ ~DictHas(eid_to_group, eids[idx])

\* C4: recording an observation that is to be discarded leaves the party table
\* as it was (no cell changed, no party entry and no key entry added) and the
\* record loop goes on.
C4_DiscardLeavesTable ==
    [][(pc = "records" /\ records_left' = records_left - 1 /\ ToDiscard(rec'))
         => (party_map' = party_map /\ pc' = "records")]_vars

\* C4 witness: an unparsable amount, a non-positive amount, an empty and an
\* absent party label have each been discarded with a cell already in the table.
C4_DiscardedAfterAccepted ==
    /\ pc = "records"
    /\ party_map # <<>>
    /\ rec # NoRec
    /\ ToDiscard(rec)

\* --------------------------------------------------- canonicalizer: claims

\* a text without its leading and trailing blanks; a missing field is empty
Trimmed(x) ==
    LET t == IF x = NoneVal THEN <<>> ELSE x
        inked == {i \in 1..Len(t) : t[i] # " "}
    IN  IF inked = {} THEN <<>>
        ELSE SubSeq(t, CHOOSE i \in inked : \A j \in inked : i <= j,
                       CHOOSE i \in inked : \A j \in inked : j <= i)

SameTrimmedFields(r1, r2) == \A f \in CanonFields : Trimmed(r1[f]) = Trimmed(r2[f])

CleanComponent(c) == c # NoneVal /\ (c = <<>> \/ (c[1] # " " /\ c[Len(c)] # " "))

\* C5: two rows whose six fields are equal after trimming get the same key,
\* two rows that differ in a trimmed field (letter case and inner blanks
\* included) get different keys, every row gets a key, and no component of a
\* key is None or starts or ends with a blank.
C5_CanonicalKey ==
    canon_out # <<>> =>
        /\ SameTrimmedFields(canon_in[1], canon_in[2]) <=> canon_out[1] = canon_out[2]
        /\ \A n \in 1..2 :
               /\ Len(canon_out[n]) = 6
               /\ \A i \in 1..6 : CleanComponent(canon_out[n][i])

\* C5 witness: two rows that differ only in padding (or in a missing field
\* against an empty one) have been given one key.
C5_PaddingOnlySameKey ==
    /\ canon_out # <<>>
    /\ canon_in[1] # canon_in[2]
    /\ canon_out[1] = canon_out[2]
    /\ \E f \in CanonFields : canon_in[1][f] = <<" ", "a", " ", " ">> /\ canon_in[2][f] = <<"a">>

\* ------------------------------------------------ duplicate detector: claims

\* the match key of every row of the directory, by file and row position
DupKeyTable ==
    LET mf == normalize_fields_union(dup_dir)
    IN  [i \in 1..Len(dup_dir) |->
            [j \in 1..Len(dup_dir[i].rows) |-> make_match_key(dup_dir[i].rows[j], mf)]]

\* the positions of the files holding a row with key k
FilesWithKey(K, k) == {i \in DOMAIN K : \E j \in DOMAIN K[i] : K[i][j] = k}

KeysInTwoFiles(K) ==
    {k \in UNION {{K[i][j] : j \in DOMAIN K[i]} : i \in DOMAIN K} :
        Cardinality(FilesWithKey(K, k)) >= 2}

\* the first row with key k in file-then-row scan order
FirstScanned(K, k) ==
    LET i == CHOOSE a \in FilesWithKey(K, k) : \A b \in FilesWithKey(K, k) : a <= b
        hits == {j \in DOMAIN K[i] : K[i][j] = k}
    IN  dup_dir[i].rows[CHOOSE a \in hits : \A b \in hits : a <= b]

\* the stems of a set of files, each once, ascending
AscendingStems(fs) ==
    LET stems == {SubSeq(dup_dir[i].name, 1, Len(dup_dir[i].name) - Len(DotCsv)) : i \in fs}
    IN  CHOOSE s \in [1..Cardinality(fs) -> stems] :
            \A a \in 1..Cardinality(fs), b \in 1..Cardinality(fs) : a < b => StrLess(s[a], s[b])

RecordFor(K, k) ==
    <<display_name_from_row(FirstScanned(K, k)), donations_value_from_row(FirstScanned(K, k)),
      Join(AscendingStems(FilesWithKey(K, k)), <<"/">>)>>

\* C6: once a candidate directory is processed, its duplicate records
\* correspond one to one to the match keys found in rows of two or more
\* files (so a key repeated inside one file only, or a directory of one file,
\* gives none); the record of a key names the stems of exactly the files
\* holding the key, each once and ascending, with the display name and the
\* self-reported total of the first row scanned with the key.
C6_OneRecordPerSharedKey ==
    dup_pc = "done" =>
        LET K == DupKeyTable
            shared == KeysInTwoFiles(K)
        IN  /\ Len(duplicates) = Cardinality(shared)
            /\ \E m \in [1..Len(duplicates) -> shared] :
                  /\ \A a \in 1..Len(duplicates), b \in 1..Len(duplicates) : m[a] = m[b] => a = b
                  /\ \A a \in 1..Len(duplicates) : duplicates[a] = RecordFor(K, m[a])
            /\ Len(dup_dir) <= 1 => duplicates = <<>>

\* C6 witness: a key held twice by one file and once by another gives one
\* record naming two stems.
C6_RepeatedAndShared ==
    /\ dup_pc = "done"
    /\ Len(duplicates) = 1
    /\ \E i \in 1..Len(dup_dir) :
          /\ Len(dup_dir[i].rows) = 2
          /\ DupKeyTable[i][1] = DupKeyTable[i][2]
    /\ \E k \in KeysInTwoFiles(DupKeyTable) : Cardinality(FilesWithKey(DupKeyTable, k)) = 2

IsAmountName(f) == Lower(f) = F_amount

\* two rows agree on every field whose name is not "amount" in any letter case
AgreeButAmount(r1, r2) ==
    \A f \in (DOMAIN r1) \cup (DOMAIN r2) : ~IsAmountName(f) => RowGet(r1, f) = RowGet(r2, f)

AmountOf(r) == IF F_amount \in DOMAIN r THEN r[F_amount] ELSE RowGet(r, F_Amount)

\* the directory is republican.csv and nonpartisan.csv, one row each, the two
\* rows agreeing but for the amount
TwoPartyFiles ==
    /\ Len(dup_dir) = 2
    /\ dup_dir[1].name = StemNonpartisan \o DotCsv
    /\ dup_dir[2].name = StemRepublican \o DotCsv
    /\ Len(dup_dir[1].rows) = 1
    /\ Len(dup_dir[2].rows) = 1
    /\ AgreeButAmount(dup_dir[1].rows[1], dup_dir[2].rows[1])

\* C7: once a candidate directory is processed, rows of two different files
\* that agree on every field but the amount fields have the same match key,
\* and republican.csv and nonpartisan.csv
\* holding one such row each give exactly one record, naming
\* nonpartisan/republican.
C7_AmountInsensitive ==
    dup_pc = "done" =>
        LET K == DupKeyTable
        IN  /\ \A i \in 1..Len(dup_dir), j \in 1..Len(dup_dir) :
                  i # j =>
                     \A a \in 1..Len(dup_dir[i].rows), b \in 1..Len(dup_dir[j].rows) :
                        AgreeButAmount(dup_dir[i].rows[a], dup_dir[j].rows[b]) => K[i][a] = K[j][b]
            /\ TwoPartyFiles =>
                  /\ Len(duplicates) = 1
                  /\ duplicates[1][3] = StemNonpartisan \o <<"/">> \o StemRepublican

\* C7 witness: the two files differ in the amount and in the letter case of
\* the amount column, and the record is there.
C7_DifferentAmounts ==
    /\ dup_pc = "done"
    /\ TwoPartyFiles
    /\ AmountOf(dup_dir[1].rows[1]) # AmountOf(dup_dir[2].rows[1])
    /\ F_Amount \in DOMAIN dup_dir[1].rows[1]
    /\ Len(duplicates) = 1

\* ---------------------------------------------------------- dedupe: claims

\* the match key: entityName when present, else first and last name, with
\* the self-reported total; a row with none of them has no key
IdentityTotalKey(row) ==
    LET entity == Strip(OrEmpty(RowGet(row, F_entityName)))
        first == Strip(OrEmpty(RowGet(row, F_firstName)))
        last == Strip(OrEmpty(RowGet(row, F_lastName)))
        total == normalize_donation(RowGet(row, F_donationsToCampaign))
    IN  IF entity # <<>> THEN <<normalize_name(entity), total>>
        ELSE IF first # <<>> \/ last # <<>> \/ total # <<>>
             THEN <<normalize_name(first), normalize_name(last), total>>
        ELSE NoneVal

\* the keys occurring in republican.csv or democratic.csv
KnownPartisanKeys ==
    LET rows == RowsOfFile(ded_orig, StemRepublican \o DotCsv)
                \o RowsOfFile(ded_orig, StemDemocratic \o DotCsv)
    IN  {IdentityTotalKey(rows[i]) : i \in 1..Len(rows)} \ {NoneVal}

RECURSIVE RowsNotKnown(_, _)
RowsNotKnown(rows, known) ==
    IF rows = <<>> THEN <<>>
    ELSE (IF IdentityTotalKey(Head(rows)) \in known THEN <<>> ELSE <<Rewritten(Head(rows))>>)
         \o RowsNotKnown(Tail(rows), known)

IsOtherCategory(file) ==
    dedupe_category(PathStem(file.name)) \in {"nonpartisan", "thirdParty"}

\* C8: after the run no row left in a nonpartisan or thirdParty file has a
\* key (identity and self-reported total) occurring in republican.csv or
\* democratic.csv, the rows left are the rows with other keys in their
\* original order, and every reported removed + kept is the number of rows
\* the file had.
C8_NoKnownPartisanLeft ==
    ded_pc = "done" =>
        /\ \A i \in 1..Len(ded_dir) :
              IsOtherCategory(ded_dir[i]) =>
                 /\ \A j \in 1..Len(ded_dir[i].rows) :
                       IdentityTotalKey(ded_dir[i].rows[j]) \notin KnownPartisanKeys
                 /\ [j \in 1..Len(ded_dir[i].rows) |-> Rewritten(ded_dir[i].rows[j])]
                       = RowsNotKnown(ded_orig[i].rows, KnownPartisanKeys)
        /\ \A a \in 1..Len(ded_report) :
              ded_report[a].removed + ded_report[a].kept
                 = Len(RowsOfFile(ded_orig, ded_report[a].name))

\* ------------------------------------------------- category splitter: claims

\* word occurs in stem, letter case aside
HasWord(stem, word) ==
    \E i \in 0..(Len(stem) - Len(word)) :
        \A j \in 1..Len(word) : LowerChar(stem[i + j]) = word[j]

W_republic == <<"r", "e", "p", "u", "b", "l", "i", "c">>

W_democ == <<"d", "e", "m", "o", "c">>

W_non == <<"n", "o", "n">>

W_no_party == <<"n", "o", "-", "p", "a", "r", "t", "y">>

\* C9: the category returned is one of the four, fixed by the first rule
\* that matches the stem: "republic", then "democ", then "non" or
\* "no-party", else thirdParty; so GOP-republican-central is republican,
\* nonpartisan-judges nonpartisan and libertarian thirdParty.
C9_FirstMatchingRule ==
    cat_out # NoCategory =>
        /\ cat_out \in Categories
        /\ cat_out = (IF HasWord(cat_stem, W_republic) THEN "republican"
                      ELSE IF HasWord(cat_stem, W_democ) THEN "democratic"
                      ELSE IF HasWord(cat_stem, W_non) \/ HasWord(cat_stem, W_no_party)
                           THEN "nonpartisan"
                      ELSE "thirdParty")
        /\ cat_stem = <<"G", "O", "P", "-">> \o StemRepublican \o <<"-", "c", "e", "n", "t", "r", "a", "l">>
              => cat_out = "republican"
        /\ cat_stem = StemRepublican => cat_out = "republican"
        /\ cat_stem = StemNonpartisanJudges => cat_out = "nonpartisan"
        /\ cat_stem = StemLibertarian => cat_out = "thirdParty"

\* C9 witness: NON-REPUBLICan-democrats matches all three rules and is republican.
C9_SeveralRulesMatch ==
    /\ cat_stem = <<"N", "O", "N", "-", "R", "e", "P", "U", "B", "L", "I", "C", "-",
                    "d", "e", "m", "o", "c", "r", "a", "t", "s">>
    /\ cat_out = "republican"

\* the candidate directories of by-donor-output, in order
RECURSIVE Directories(_)
Directories(root) ==
    IF root = <<>> THEN <<>>
    ELSE (IF Head(root).is_dir THEN <<Head(root)>> ELSE <<>>) \o Directories(Tail(root))

\* the sum over the files of category k among the first n files
RECURSIVE CategorySum(_, _, _)
CategorySum(files, n, k) ==
    IF n = 0 THEN 0
    ELSE CategorySum(files, n - 1, k)
         + (IF map_party_stem_to_category(PathStem(files[n].name)) = k
            THEN sum_preferred_amounts_in_csv(files[n]) ELSE 0)

SumsAfter(files, n) ==
    [republican |-> CategorySum(files, n, "republican"),
     democratic |-> CategorySum(files, n, "democratic"),
     thirdParty |-> CategorySum(files, n, "thirdParty"),
     nonpartisan |-> CategorySum(files, n, "nonpartisan")]

AllSums(files) == SumsAfter(files, Len(files))

Text100 == <<"1", "0", "0", ".", "0", "0">>

Text0 == <<"0", ".", "0", "0">>

\* the number a line of splits.csv reports in column c, in hundredths
Reported(line, c) == ParseFloat(line[c]).val

Distance(x, y) == IF x < y THEN y - x ELSE x - y

ColumnOf(k) ==
    CASE k = "republican" -> 2 [] k = "democratic" -> 3 [] k = "thirdParty" -> 4 [] k = "nonpartisan" -> 5

\* C10: while a candidate is processed its four sums are the sums of the
\* files read so far, by category of stem, from 0; every percentage appended
\* for a candidate is 100 * category sum / grand total when the grand total
\* is positive and 0 otherwise; splits.csv is written for every input and
\* reports each percentage to the nearest hundredth, with 100.00, 0.00, 0.00,
\* 0.00 for a candidate whose only money is republican and four times 0.00
\* for a candidate whose sums are all zero.
C10_Percentages ==
    \A dirs \in {Directories(spl_root)} :
        /\ (spl_pc = "files" /\ spl_ci <= Len(spl_root) /\ spl_root[spl_ci].is_dir) =>
              \A s \in {SumsAfter(spl_root[spl_ci].files, spl_fi - 1)} :
                 \A k \in Categories : sums[k] = s[k]
        /\ Len(out_rows) <= Len(dirs)
        /\ \A a \in 1..Len(out_rows) :
              \A s \in {AllSums(dirs[a].files)} :
                 \A total \in {SumOf(s)}, k \in Categories :
                    /\ out_rows[a][ColumnOf(k)]
                          = IF total > 0 THEN [num |-> 100 * s[k], den |-> total]
                            ELSE [num |-> 0, den |-> 1]
                    /\ spl_pc = "done" =>
                          IF total > 0
                          THEN 2 * Distance(Reported(splits_csv[a + 1], ColumnOf(k)) * total,
                                            10000 * s[k]) <= total
                          ELSE splits_csv[a + 1][ColumnOf(k)] = Text0
        /\ spl_pc = "done" =>
              /\ Len(out_rows) = Len(dirs)
              /\ Len(splits_csv) = Len(dirs) + 1
              /\ \A a \in 1..Len(dirs) :
                    \A s \in {AllSums(dirs[a].files)}, line \in {splits_csv[a + 1]} :
                       /\ (s["republican"] > 0 /\ \A k \in Categories \ {"republican"} : s[k] = 0)
                             => <<line[2], line[3], line[4], line[5]>> = <<Text100, Text0, Text0, Text0>>
                       /\ (\A k \in Categories : s[k] = 0)
                             => <<line[2], line[3], line[4], line[5]>> = <<Text0, Text0, Text0, Text0>>

\* C10 witness: splits.csv holds a candidate with only republican money and a
\* candidate with no money at all.
C10_AllRepublicanAndAllZero ==
    /\ spl_pc = "done"
    /\ Len(splits_csv) = 3
    /\ \E a \in 1..2 :
          /\ AllSums(Directories(spl_root)[a].files)["republican"] > 0
          /\ <<splits_csv[a + 1][2], splits_csv[a + 1][3], splits_csv[a + 1][4], splits_csv[a + 1][5]>>
                = <<Text100, Text0, Text0, Text0>>
    /\ \E a \in 1..2 :
          /\ AllSums(Directories(spl_root)[a].files) = ZeroSums
          /\ <<splits_csv[a + 1][2], splits_csv[a + 1][3], splits_csv[a + 1][4], splits_csv[a + 1][5]>>
                = <<Text0, Text0, Text0, Text0>>


\* ------------------------------------------------- preferred sum: claims

\* the columns whose name contains the word, letter case ignored
ColumnsNamed(header, word) == {i \in 1..Len(header) : Contains(Lower(header[i]), word)}

\* the first header containing "donat" if any, else the first containing "amount"
ReferenceColumn(header) ==
    LET d == ColumnsNamed(header, <<"d", "o", "n", "a", "t">>)
        a == ColumnsNamed(header, F_amount)
        first(S) == CHOOSE i \in S : \A j \in S : i <= j
    IN  IF d # {} THEN first(d) ELSE IF a # {} THEN first(a) ELSE 0

\* the per-value parse: keep digits, dot, minus and apostrophe and convert;
\* only if that fails keep digits, dot and minus and convert; 0 if both fail
ReferenceParse(v) ==
    LET text == IF v = NoneVal THEN <<>> ELSE v
        withApostrophe == ParseFloat(KeepChars(text, Digits \cup {".", "-", "'"}))
        without == ParseFloat(KeepChars(text, Digits \cup {".", "-"}))
    IN  IF withApostrophe.ok THEN withApostrophe.val
        ELSE IF without.ok THEN without.val
        ELSE 0

RECURSIVE ReferenceTotal(_, _)
ReferenceTotal(rows, name) ==
    IF rows = <<>> THEN 0
    ELSE ReferenceParse(Head(rows)[name]) + ReferenceTotal(Tail(rows), name)

ReferenceSum(file) ==
    LET c == ReferenceColumn(file.header)
    IN  IF c = 0 THEN 0 ELSE ReferenceTotal(file.rows, file.header[c])

\* C11: sum_preferred_amounts_in_csv returns, for every file, the sum over the
\* rows of the reference parse of the first "donat" column (else the first
\* "amount" column, else 0): apostrophe-keeping conversion first, then the
\* conversion without apostrophes, 0 when both fail; the call always returns.
C11_SumEqualsReference ==
    /\ sum_pc \in {"idle", "start", "done"}
    /\ sum_pc = "done" => sum_total = ReferenceSum(sum_file)

\* C11 witness: a file with a donation column placed after an amount column,
\* one value with an apostrophe as thousands separator and one value that no
\* conversion accepts, has been summed to 1000.00.
C11_ApostropheAndUnparsable ==
    /\ sum_pc = "done"
    /\ sum_file.header = TwoDonationHeader
    /\ Len(sum_file.rows) = 2
    /\ sum_file.rows[1][F_Donation] = <<"1", "'", "0", "0", "0">>
    /\ sum_file.rows[2][F_Donation] = <<"1", "-", "2">>
    /\ sum_total = 100000

\* ------------------------------------------- aggregator output: claims

\* an optional minus sign, then digits only, with no leading zero
PlainInteger(s) ==
    LET body == IF s # <<>> /\ Head(s) = "-" THEN Tail(s) ELSE s
    IN  /\ body # <<>>
        /\ \A i \in 1..Len(body) : body[i] \in Digits
        /\ Len(body) > 1 => body[1] # "0"

\* an optional minus sign, digits, a dot, exactly two digits
TwoDecimals(s) ==
    LET body == IF s # <<>> /\ Head(s) = "-" THEN Tail(s) ELSE s
        n == Len(body)
    IN  /\ n >= 4
        /\ body[n - 2] = "."
        /\ \A i \in (1..n) \ {n - 2} : body[i] \in Digits
        /\ n > 4 => body[1] # "0"

\* s is the text of the value x in the format of the output tables
FormattedAs(s, x) ==
    /\ IF x % 100 = 0 THEN PlainInteger(s) ELSE TwoDecimals(s)
    /\ ParseFloat(s) = [ok |-> TRUE, val |-> x]

\* the party whose rows are in the file of its name once all are written
WritesLast(pm, i) == \A j \in (i + 1)..Len(pm) : SafeName(pm[j][1]) # SafeName(pm[i][1])

C12_Examples ==
    /\ DollarStr(1500) = <<"1", "5">>
    /\ DollarStr(1550) = <<"1", "5", ".", "5", "0">>
    /\ DollarStr(0 - 0) = <<"0">>
    /\ DollarStr(10000 + 5000) = <<"1", "5", "0">>

C12_WriteStep ==
    (pc = "fetch" /\ ci' = ci + 1) =>
        /\ C12_Examples
        /\ \A i \in 1..Len(party_map) :
               WritesLast(party_map, i) =>
                   \A rows \in {out_files'[<<ci, SafeName(party_map[i][1])>>]} :
                       /\ Len(rows) = Len(party_map[i][2])
                       /\ \A j \in 1..Len(party_map[i][2]) :
                              \A info \in {DictAt(group_info, party_map[i][2][j][1])} :
                                  \E n \in 1..Len(rows) :
                                      /\ rows[n][1] = info.entityName
                                      /\ rows[n][2] = info.first
                                      /\ rows[n][3] = info.last
                                      /\ FormattedAs(rows[n][4], party_map[i][2][j][2])
                                      /\ FormattedAs(rows[n][5], info.donationsToCampaign)

\* C12: every dollar value written to a per-party table (the accumulated
\* amount and the self-reported total) is a plain integer text when the value
\* is an integer and has exactly two decimal places otherwise: 15.0 is "15",
\* 15.5 is "15.50", -0.0 is "0", an accumulated 150.00 is "150".
C12_DollarFormat == [][C12_WriteStep]_vars

\* C12 witness: a group with the self-reported total 50.50 has been written
\* with the accumulated amounts 100 and 1000.50.
C12_IntegerAndFraction ==
    /\ <<1, <<"r", "e", "p">>>> \in DOMAIN out_files
    /\ <<1, <<"d", "e", "m">>>> \in DOMAIN out_files
    /\ out_files[<<1, <<"r", "e", "p">>>>] =
           << <<AcmePAC, <<>>, <<>>, <<"1", "0", "0">>, <<"5", "0", ".", "5", "0">>>> >>
    /\ out_files[<<1, <<"d", "e", "m">>>>] =
           << <<AcmePAC, <<>>, <<>>, <<"1", "0", "0", "0", ".", "5", "0">>, <<"5", "0", ".", "5", "0">>>> >>

\* the place of cell j of a person map in its output table: after the cells
\* with a greater amount and after the earlier cells with the same amount
PlaceOf(person_map, j) ==
    1 + Cardinality({q \in 1..Len(person_map) :
                        \/ person_map[q][2] > person_map[j][2]
                        \/ person_map[q][2] = person_map[j][2] /\ q < j})

C13_WriteStep ==
    (pc = "fetch" /\ ci' = ci + 1) =>
        \A i \in 1..Len(party_map) :
            WritesLast(party_map, i) =>
                \A rows \in {out_files'[<<ci, SafeName(party_map[i][1])>>]} :
                    /\ Len(rows) = Len(party_map[i][2])
                    /\ \A n \in 1..(Len(rows) - 1) :
                           ParseFloat(rows[n][4]).val >= ParseFloat(rows[n + 1][4]).val
                    /\ \A j \in 1..Len(party_map[i][2]) :
                           \A info \in {DictAt(group_info, party_map[i][2][j][1])} :
                               \A row \in {rows[PlaceOf(party_map[i][2], j)]} :
                                   /\ <<row[1], row[2], row[3]>>
                                          = <<info.entityName, info.first, info.last>>
                                   /\ ParseFloat(row[4]).val = party_map[i][2][j][2]

\* C13: in every per-party table the rows are in non-increasing order of
\* accumulated amount, and rows with equal amounts are in the order in which
\* their (party, key) cells were created during accumulation.
C13_SortedStable == [][C13_WriteStep]_vars

\* C13 witness: two cells of one party with the same amount, the organisation's
\* created first, have been written in that order.
C13_TieInCreationOrder ==
    /\ pc \in {"ingest", "done"}
    /\ Len(party_map) = 1
    /\ DictKeys(party_map[1][2]) = <<AcmeKey, NoIdentityKey>>
    /\ party_map[1][2][1][2] = party_map[1][2][2][2]
    /\ <<ci - 1, SafeName(party_map[1][1])>> \in DOMAIN out_files
    /\ LET rows == out_files[<<ci - 1, SafeName(party_map[1][1])>>]
       IN  /\ Len(rows) = 2
           /\ rows[1][1] = AcmePAC
           /\ rows[2][1] = <<>>
           /\ rows[1][4] = rows[2][4]

\* the files of candidate c
FilesOf(files, c) == {f \in DOMAIN files : f[1] = c}

\* every label of the party table has a file of its own that holds its rows
OwnFilePerLabel(pm, gi, files, c) ==
    \E file \in [1..Len(pm) -> FilesOf(files, c)] :
        /\ \A i, j \in 1..Len(pm) : i # j => file[i] # file[j]
        /\ \A i \in 1..Len(pm) : files[file[i]] = PartyRows(gi, pm[i][2])

\* C14: the aggregator writes one file per party label per candidate: two
\* distinct labels of a candidate's party table are written to two distinct
\* files, and the rows of one label are never replaced by the rows of another.
C14_OneFilePerLabel ==
    [][(pc = "fetch" /\ ci' = ci + 1)
         => /\ Cardinality(FilesOf(out_files', ci)) = Len(party_map)
            /\ OwnFilePerLabel(party_map, group_info, out_files', ci)]_vars

\* ------------------------------------------------ remote lookups: claims

\* the aggregator issues a lookup request in this step
AggRequestStep == requested' # requested /\ requested' # <<>>

\* search-users.py issues a request in this step
SrchRequestStep == srch_pc' = "responded" /\ srch_pc # "responded"

C15_Step ==
    /\ AggRequestStep =>
           /\ pc = "fetch"
           /\ lookup \in {"none", "slept"}
    /\ SrchRequestStep =>
           /\ srch_pc = "row"
           /\ srch_resp = "none"
           /\ srch_last \in {"none", "slept"}

\* C15: lookups are issued one at a time, each after the previous one has
\* ended, and between two consecutive requests of a run the script has slept
\* for the configured interval: within a file and across files, after a
\* success, a network error, a non-200 status.
C15_DelayBetweenRequests == [][C15_Step]_vars

\* C15 witness: the second candidate file's first request has been issued and
\* has failed, after the first candidate's lookup was answered and its file
\* written.
C15_RequestAcrossFiles ==
    /\ ci = 2
    /\ pc = "records"
    /\ lookup = "failed"
    /\ Len(requested) = 1
    /\ \E f \in DOMAIN out_files : f[1] = 1

\* no identifier occurs twice in the requests of a pass
RequestedOnce(req) == \A i, j \in 1..Len(req) : req[i] = req[j] => i = j

\* C16: a lookup that fails (network error, timeout, malformed body, a body
\* of unexpected shape) yields no record and so no observation for its
\* identifier, no identifier is requested twice in a pass, and the run is not
\* aborted: the eid loop goes on to the sleep and the next identifier.
C16_FailedLookupIsSkipped ==
    /\ RequestedOnce(requested)
    /\ lookup \in {"failed", "unexpected"} =>
           /\ pc = "records"
           /\ records_left = 0
           /\ rec = NoRec
    /\ pc # "aborted"

\* ----------------------------------------------------- a rerun: claims

\* the donors file of the prior run: the organisation under identifier 1
PriorRow ==
    [BlankRow EXCEPT !.eid = <<"1">>, !.entityName = AcmePAC,
                     !.donationsToCampaign = <<"$", "1", ",", "0", "0", "0">>]

\* the lookup responses of the prior run
PriorRecs ==
    { << [party |-> Rep, total |-> <<"1", "0", "0", ".", "0", "0">>] >>,
      << [party |-> Rep, total |-> <<"1", "0", "0", ".", "0", "0">>],
         [party |-> Dem, total |-> <<"1", ",", "0", "0", "0", ".", "5">>] >> }

RECURSIVE RecordAll(_, _, _, _)
RecordAll(pm, index, eid, recs) ==
    IF recs = <<>> THEN pm
    ELSE RecordAll(Record(pm, index, eid, Head(recs)), index, eid, Tail(recs))

\* what a prior run for candidate 1 has left in the output directory
PriorOutputs ==
    LET eid == Field(PriorRow, "eid")
        index == DictSet(<<>>, eid, group_key_of(PriorRow))
        gi == IngestGroup(<<>>, PriorRow, eid)
    IN  {WriteParties(NoFiles, 1, gi, RecordAll(<<>>, index, eid, recs)) : recs \in PriorRecs}

\* main starts with the output of a prior run in by-donor-output
RerunInit ==
    /\ ncand \in CandCounts
    /\ limit \in LimitArgs
    /\ ci = 1
    /\ pc = "ingest"
    /\ rows_read = <<>>
    /\ eid_to_group = <<>>
    /\ group_info = <<>>
    /\ eids = <<>>
    /\ idx = 1
    /\ records_left = 0
    /\ rec = NoRec
    /\ party_map = <<>>
    /\ out_files \in PriorOutputs
    /\ observed = NoSums
    /\ rows_used = 0
    /\ recs_used = 0
    /\ lookup = "none"
    /\ requested = <<>>

InitRerun ==
    RerunInit /\ CanonIdle /\ DupIdle /\ DedIdle /\ CatIdle /\ SplIdle /\ SumIdle /\ SrchIdle

\* a run of aggregate-by-party.py over the output of a prior run
SpecRerun == InitRerun /\ [][Next]_vars

\* the files of candidate c and their rows
OutputOf(files, c) == [f \in FilesOf(files, c) |-> files[f]]

\* C17: a rerun for a candidate overwrites the candidate's output: once the
\* rerun has written, the candidate's directory holds the files and rows of
\* the rerun's own party table and nothing left over from the prior run.
C17_RerunOverwrites ==
    [][(pc = "fetch" /\ ci' = ci + 1)
         => OutputOf(out_files', ci) = WriteParties(NoFiles, ci, group_info, party_map)]_vars

\* ------------------------------------------- candidate boundaries: claims

\* the identifier index and the group table built from the rows of one file
\* alone, starting from empty tables
RECURSIVE IndexAfter(_)
IndexAfter(rows) ==
    IF rows = <<>> THEN <<>>
    ELSE LET row == rows[Len(rows)]
             before == IndexAfter(SubSeq(rows, 1, Len(rows) - 1))
         IN  IF Field(row, "eid") = <<>> THEN before
             ELSE DictSet(before, Field(row, "eid"), group_key_of(row))

RECURSIVE GroupsAfter(_)
GroupsAfter(rows) ==
    IF rows = <<>> THEN <<>>
    ELSE LET row == rows[Len(rows)]
             before == GroupsAfter(SubSeq(rows, 1, Len(rows) - 1))
         IN  IF Field(row, "eid") = <<>> THEN before
             ELSE IngestGroup(before, row, Field(row, "eid"))

\* the tables are those of the rows of the pass after every step that reads a
\* row or starts a pass, and no other step changes them
OwnTables(rows, index, gi) == index = IndexAfter(rows) /\ gi = GroupsAfter(rows)

C18_Step ==
    /\ IF rows_read' # rows_read
       THEN OwnTables(rows_read', eid_to_group', group_info')
       ELSE UNCHANGED <<eid_to_group, group_info>>
    /\ (pc' = "fetch" /\ requested' = <<>>) => (party_map' = <<>> /\ observed' = NoSums)
    /\ AggRequestStep => requested' = SubSeq(eids, 1, Len(requested'))
    /\ (pc = "fetch" /\ ci' = ci + 1) =>
           /\ OwnTables(rows_read, eid_to_group, group_info)
           /\ requested = EidsToFetch(IndexAfter(rows_read), limit)
           /\ OutputOf(out_files', ci)
                  = WriteParties(NoFiles, ci, GroupsAfter(rows_read), party_map)
           /\ \A f \in DOMAIN out_files :
                  f[1] # ci /\ f \in DOMAIN out_files' /\ out_files'[f] = out_files[f]

KnownEids(index, gi) ==
    {index[i][1] : i \in 1..Len(index)} \cup UNION {gi[n][2].eids : n \in 1..Len(gi)}

\* C19: the identifier index and the group table agree after any sequence of
\* ingested rows: an identifier resolves to key k exactly when it is in the
\* identifier set of group k, so every resolvable identifier resolves to an
\* existing group and no identifier is in the sets of two groups.
C19_IndexAgreesWithGroups ==
    /\ \A i \in 1..Len(eid_to_group) : DictHas(group_info, eid_to_group[i][2])
    /\ \A e \in KnownEids(eid_to_group, group_info) : \A n \in 1..Len(group_info) :
           (DictHas(eid_to_group, e) /\ DictAt(eid_to_group, e) = group_info[n][1])
               <=> e \in group_info[n][2].eids

\* ------------------------------------------- dedupe footprint: claims

\* the directory as the current run found it
DedAtStart == IF ded_run = 1 THEN ded_orig ELSE ded_first

\* the files the current run has reported with no row removed
ReportedUntouched == {ded_report[a].name : a \in {b \in 1..Len(ded_report) : ded_report[b].removed = 0}}

ReportedFiles == {ded_report[a].name : a \in 1..Len(ded_report)}

\* C20: deduplication never modifies a file categorized republican or
\* democratic (republican.csv and democratic.csv among them), leaves a
\* nonpartisan or thirdParty file from which it removes no row as it is, does
\* nothing when republican.csv and democratic.csv give no key, and a second
\* run on its own output removes no row and leaves every file unchanged.
C20_BoundedFootprintIdempotent ==
    \A start \in {DedAtStart} :
        /\ Len(ded_dir) = Len(start)
        /\ \A i \in 1..Len(ded_dir) :
               /\ ded_dir[i].name = start[i].name
               /\ ded_dir[i].header = start[i].header
               /\ ~IsOtherCategory(ded_dir[i]) => ded_dir[i] = start[i]
               /\ ded_dir[i].name \in ReportedUntouched => ded_dir[i] = start[i]
               /\ ded_dir[i].name \notin ReportedFiles => ded_dir[i] = start[i]
        /\ (ded_pc = "done" /\ repdem_keys = {}) => (ded_dir = start /\ ded_report = <<>>)
        /\ ded_run = 2 =>
               /\ ded_dir = ded_first
               /\ \A a \in 1..Len(ded_report) : ded_report[a].removed = 0

\* C20 witness: a second run has ended on a directory from which the first
\* run had removed a row, and has reported a file.
C20_SecondRunAfterRemoval ==
    /\ ded_run = 2
    /\ ded_pc = "done"
    /\ ded_first # ded_orig
    /\ ded_report # <<>>

\* ------------------------------------------- range of the splits: claims

\* the fraction p lies between 0 and 100
InPercentRange(p) == p.num >= 0 /\ p.num <= 100 * p.den

\* C21: for every candidate each of the four split percentages lies between
\* 0 and 100, and the four sum to 100 when the candidate's grand total is
\* greater than 0 and to 0 otherwise, whatever the party files hold, values
\* that parse to negative numbers included.
C21_PercentagesInRange ==
    \A dirs \in {Directories(spl_root)} :
        \A a \in 1..Len(out_rows) :
            \A row \in {out_rows[a]}, total \in {SumOf(AllSums(dirs[a].files))} :
                /\ \A c \in 2..5 : InPercentRange(row[c])
                /\ IF total > 0
                   THEN /\ \A c \in 2..5 : row[c].den = total
                        /\ row[2].num + row[3].num + row[4].num + row[5].num = 100 * total
                   ELSE \A c \in 2..5 : row[c].num = 0
                /\ spl_pc = "done" =>
                       \A c \in 2..5 : Reported(splits_csv[a + 1], c) \in 0..10000

====
